---- MODULE Spec2Model ----
(***************************************************************************)
(* A model of the subtitle downloader (FelipeAE/subs_lat): the fingerprint *)
(* of a video file (main.py, get_file_hash), the search and download       *)
(* pipeline of the orchestrator (main.py, SubtitleDownloaderApp), the      *)
(* provider classes (src/providers) and the extraction of a subtitle from  *)
(* downloaded bytes.                                                       *)
(*                                                                         *)
(* The module holds several specifications over one set of variables; a    *)
(* specification leaves the variables of the other parts at their idle     *)
(* value.                                                                  *)
(*   SpecHash     get_file_hash, one loop iteration per step               *)
(*   SpecZip      _extract_subtitle_content on downloaded bytes            *)
(*   SpecProv     the provider classes, a search and a download each       *)
(*   SpecBrowser  one SubDivXProvider instance, its calls and its disposal *)
(*   SpecSave     the persist step of the download workers                 *)
(*   SpecSort     the results table: redraws and column sorts              *)
(*   Spec         the application: the UI thread and its worker threads    *)
(*   SpecBatch    the batch threads of the application, fairly scheduled   *)
(***************************************************************************)
EXTENDS Integers, Sequences, FiniteSets, TLC

VARIABLES
    \* ---- get_file_hash (main.py:47-75)
    filepath,      \* the file the call is about: [size, pat, readable]
    hpc,           \* position in get_file_hash
    loop_i,        \* iterations of the current for loop already done
    fpos,          \* the file object's read position (f.read / f.seek)
    hash_val,      \* the accumulator, a Python int (see PyInt)
    hash_result,   \* the value returned: None or a string of hex digits
    io_failed,     \* whether a read of this call met an I/O error
    \* ---- _extract_subtitle_content (main.py:646-664)
    zcontent,      \* the downloaded bytes handed to the call
    zmade,         \* how those bytes were made: [zip, members, damage]
    zpc,           \* "start", "once" (applied), "twice" (applied to its result)
    zout,          \* the bytes the first call returned
    zagain,        \* the bytes the call on zout returned
    \* ---- the provider classes (src/providers, and the two of main.py)
    caps,          \* what is installed and configured: [playwright, subliminal, api_key]
    subdivx,       \* the SubDivXProvider instance: [playwright, browser, contexts, ...]
    ppc,           \* "idle", "searched", "downloaded"
    pcall,         \* the last call: who, what, the remote's behaviour, the outcome
    held,          \* the search result the caller hands to download
    \* ---- SubtitleDownloaderApp (main.py)
    video_files,         \* self.video_files: the videos of the loaded folder
    selection,           \* the row selected in the video listbox, 0 for none
    current_video_path,  \* self.current_video_path: an index of video_files, 0 for None
    current_results,     \* self.current_results
    tree,                \* the rows of results_tree: [tag, shows]
    after_q,             \* the redraws queued with root.after(0, update)
    disk,                \* the subtitle files written: [video, lang, data]
    workers,             \* the threads started and not yet finished
    spawned,             \* how many threads have been started
    \* ---- the persist step of the two download workers (main.py:614-644, 744-759)
    sfiles,        \* the files on disk: [dir, name, data]
    sjob,          \* what the worker holds when it gets there: [mode, video, sub, content, io, found]
    spc,           \* "start", "saved", "failed", "nothing"
    sname,         \* sub_name as computed, None before
    scount,        \* downloaded, the counter of the batch
    \* ---- the results table and its column sort (main.py:344-351, 431-463, 528-552)
    results_tree,  \* the rows of the table in display order: [item, values]
    sort_reverse,  \* self.sort_reverse: column -> whether the next sort is reversed
    heading,       \* the column whose header shows an arrow, and the arrow
    streak,        \* the activations since the rows were drawn: [col, n]
    last,          \* the latest activation: [col, raised, reverse, before]
    \* ---- SubDivXProvider._parse_results (subdivx.py:105-135)
    soup,          \* the parsed page: what each of the three selectors finds
    parsed,        \* the list the call returned
    cpc            \* "start", "parsed"

hvars == <<filepath, hpc, loop_i, fpos, hash_val, hash_result, io_failed>>

zvars == <<zcontent, zmade, zpc, zout, zagain>>

pvars == <<caps, subdivx, ppc, pcall, held>>

uivars == <<video_files, selection, current_video_path, current_results, tree, after_q>>

ovars == <<uivars, disk, workers, spawned>>

cvars == <<soup, parsed, cpc>>

svars == <<sfiles, sjob, spc, sname, scount>>

tvars == <<results_tree, sort_reverse, heading, streak, last>>

vars == <<hvars, zvars, pvars, ovars, svars, tvars, cvars>>

\* Python's None where a string is expected: strings are sequences of
\* characters, and None is a sequence that is no string of hex digits.
None == <<"None">>

(***************************************************************************)
(* Python integers.  hash_val and l_value are unbounded Python ints.  The  *)
(* model checker's integers are 32 bits wide, so a Python int is held as   *)
(* its two's complement on IntWidth bytes, least significant byte first.   *)
(* IntWidth is two bytes more than a 64-bit word: the sum of a value in    *)
(* [0, 2^64) and a value in [-2^63, 2^63) fits with room to spare, so no   *)
(* operation of get_file_hash wraps at this width.                         *)
(***************************************************************************)
\* main.py:50-51  longlongformat = '<q'; bytesize = struct.calcsize('<q')
bytesize == 8

IntWidth == bytesize + 2

Byte == 0..255

PyInt == [1..IntWidth -> Byte]

\* Bytes k..IntWidth of a + b, given the carry into byte k.
RECURSIVE AddFrom(_, _, _, _)
AddFrom(a, b, k, carry) ==
    IF k > IntWidth THEN <<>>
    ELSE LET s == a[k] + b[k] + carry
         IN  <<s % 256>> \o AddFrom(a, b, k + 1, s \div 256)

\* Python's a + b on ints in range.
PyAdd(a, b) == AddFrom(a, b, 1, 0)

PyIsNegative(a) == a[IntWidth] >= 128

PyNegate(a) ==
    PyAdd([k \in 1..IntWidth |-> 255 - a[k]],
          [k \in 1..IntWidth |-> IF k = 1 THEN 1 ELSE 0])

\* A non-negative integer of the model checker (below 2^31) as a Python int.
PyFromNat(n) ==
    [k \in 1..IntWidth |->
        CASE k = 1 -> n % 256
          [] k = 2 -> (n \div 256) % 256
          [] k = 3 -> (n \div 65536) % 256
          [] k = 4 -> (n \div 16777216) % 256
          [] OTHER -> 0]

\* main.py:64,71  hash_val & 0xFFFFFFFFFFFFFFFF: the low 64 bits of the two's
\* complement, which is what Python's & gives for a negative left operand too.
Mask64(a) == [k \in 1..IntWidth |-> IF k <= bytesize THEN a[k] ELSE 0]

(***************************************************************************)
(* Files.  A file is its size and its content; the content is given by a   *)
(* pattern, a rule for the byte at each offset, so that a file of more     *)
(* than 128 KiB is a small value.                                          *)
(***************************************************************************)
\* main.py:57,60,66,67  the literal 65536
BlockSize == 65536

\* Sizes at and past the threshold are 2 * BlockSize + e, e in 0..MaxTail.
MaxTail == 1

Files ==
    [size : {0, bytesize, 2 * BlockSize - 1} \cup {2 * BlockSize + e : e \in 0..MaxTail},
     pat : {"ones", "ramp", "high"},
     readable : BOOLEAN]

\* The byte at offset o (0-based) of file f.
ByteAt(f, o) ==
    CASE f.pat = "ones" -> 255                    \* every word is -1 as '<q'
      [] f.pat = "ramp" -> (o * 7 + 3) % 256
      [] f.pat = "high" -> IF o % 8 = 7 THEN 128 + ((o \div 8) % 128) ELSE o % 3

\* main.py:61,68  buffer = f.read(bytesize) at position p: the bytes there are,
\* at most bytesize of them.
ReadAt(f, p) ==
    [k \in 1..(IF f.size - p >= bytesize THEN bytesize
               ELSE IF f.size > p THEN f.size - p ELSE 0) |-> ByteAt(f, p + k - 1)]

\* main.py:62,69  (l_value,) = struct.unpack('<q', buffer): little-endian and
\* signed, so the top bit of the last byte is the sign.
UnpackQ(buffer) ==
    [k \in 1..IntWidth |->
        IF k <= bytesize THEN buffer[k]
        ELSE IF buffer[bytesize] >= 128 THEN 255 ELSE 0]

HexDigits == <<"0", "1", "2", "3", "4", "5", "6", "7",
               "8", "9", "a", "b", "c", "d", "e", "f">>

\* The hex digits of a non-negative Python int, most significant first, two per
\* byte of the representation.
AllHex(a) ==
    [d \in 1..(2 * IntWidth) |->
        LET b == a[IntWidth - ((d - 1) \div 2)]
        IN  IF d % 2 = 1 THEN HexDigits[(b \div 16) + 1] ELSE HexDigits[(b % 16) + 1]]

RECURSIVE StripZeros(_, _)
StripZeros(s, keep) ==
    IF Len(s) > keep /\ Head(s) = "0" THEN StripZeros(Tail(s), keep) ELSE s

\* main.py:73  "%016x" % hash_val: lowercase hex, zero-padded to at least 16
\* digits and never cut; a negative value prints its sign.
FormatHex16(a) ==
    IF PyIsNegative(a)
    THEN <<"-">> \o StripZeros(AllHex(PyNegate(a)), 2 * bytesize - 1)
    ELSE StripZeros(AllHex(a), 2 * bytesize)

(***************************************************************************)
(* get_file_hash, main.py:47-75.                                           *)
(***************************************************************************)
\* main.py:60,67  range(65536 // bytesize)
LoopCount == BlockSize \div bytesize

\* TooSmall with the block counted once.
TooSmallOneBlock(filesize) == filesize < BlockSize

\* main.py:57  if filesize < 65536 * 2: return None
TooSmall(filesize) == filesize < BlockSize * 2

\* main.py:66  f.seek(max(0, filesize - 65536), 0)
SeekTarget(filesize) == IF filesize - BlockSize > 0 THEN filesize - BlockSize ELSE 0

\* Accumulate without the mask of lines 64 and 71.
AccumulateNoMask(acc, buffer) == PyAdd(acc, UnpackQ(buffer))

\* main.py:62-64 and 69-71: one iteration's new accumulator.
Accumulate(acc, buffer) == Mask64(PyAdd(acc, UnpackQ(buffer)))

\* main.py:53-58: open the file, read its size; a file that cannot be opened
\* raises, and line 74 turns that into None.
HashOpen ==
    /\ hpc = "open"
    /\ IF ~filepath.readable
       THEN /\ hpc' = "done"
            /\ hash_result' = None
            /\ UNCHANGED <<hash_val, loop_i, fpos>>
       ELSE /\ hash_val' = PyFromNat(filepath.size)
            /\ IF TooSmall(filepath.size)
               THEN /\ hpc' = "done"
                    /\ hash_result' = None
               ELSE /\ hpc' = "first"
                    /\ UNCHANGED hash_result
            /\ loop_i' = 0
            /\ fpos' = 0
    /\ UNCHANGED <<filepath, io_failed, zvars, pvars, ovars, svars, tvars, cvars>>

\* One iteration of either for loop (main.py:60-64, 67-71): a short read makes
\* struct.unpack raise, and line 74 returns None.
HashLoopStep(loop) ==
    /\ hpc = loop
    /\ loop_i < LoopCount
    /\ LET buffer == ReadAt(filepath, fpos)
       IN  IF Len(buffer) < bytesize
           THEN /\ hpc' = "done"
                /\ hash_result' = None
                /\ UNCHANGED <<hash_val, loop_i, fpos>>
           ELSE /\ hash_val' = Accumulate(hash_val, buffer)
                /\ fpos' = fpos + bytesize
                /\ loop_i' = loop_i + 1
                /\ UNCHANGED <<hpc, hash_result>>
    /\ UNCHANGED <<filepath, io_failed, zvars, pvars, ovars, svars, tvars, cvars>>

HashFirstLoop == HashLoopStep("first")

\* main.py:66: the first loop is over, seek to the last block.
HashSeek ==
    /\ hpc = "first"
    /\ loop_i = LoopCount
    /\ fpos' = SeekTarget(filepath.size)
    /\ loop_i' = 0
    /\ hpc' = "last"
    /\ UNCHANGED <<filepath, hash_val, hash_result, io_failed, zvars, pvars, ovars, svars, tvars, cvars>>

HashLastLoop == HashLoopStep("last")

\* main.py:73: the second loop is over, format the result.
HashReturn ==
    /\ hpc = "last"
    /\ loop_i = LoopCount
    /\ hash_result' = FormatHex16(hash_val)
    /\ hpc' = "done"
    /\ UNCHANGED <<filepath, hash_val, loop_i, fpos, io_failed, zvars, pvars, ovars, svars, tvars, cvars>>

\* main.py:74-75: a read that fails (an I/O error) raises inside the try, and
\* the bare except returns None.
HashIOError ==
    /\ hpc \in {"first", "last"}
    /\ hpc' = "done"
    /\ hash_result' = None
    /\ io_failed' = TRUE
    /\ UNCHANGED <<filepath, hash_val, loop_i, fpos, zvars, pvars, ovars, svars, tvars, cvars>>

HashInit ==
    /\ filepath \in Files
    /\ hpc = "open"
    /\ loop_i = 0
    /\ fpos = 0
    /\ hash_val = PyFromNat(0)
    /\ hash_result = None
    /\ io_failed = FALSE

\* The idle value of this part, for the specifications of the other parts.
HashUnused ==
    /\ filepath = [size |-> 0, pat |-> "ones", readable |-> FALSE]
    /\ hpc = "idle"
    /\ loop_i = 0
    /\ fpos = 0
    /\ hash_val = PyFromNat(0)
    /\ hash_result = None
    /\ io_failed = FALSE

HashNext ==
    \/ HashOpen
    \/ HashFirstLoop
    \/ HashSeek
    \/ HashLastLoop
    \/ HashReturn
    \/ HashIOError

(***************************************************************************)
(* Downloaded bytes and ZIP archives.  Bytes are sequences of numbers in   *)
(* 0..255.  zipfile is a library, not code of the repository: the archive  *)
(* format below stands for it.  It keeps what _extract_subtitle_content    *)
(* relies on: an archive of at least one member starts with the local file *)
(* header signature PK\x03\x04, its members have names and data in archive *)
(* order, an archive that is cut short cannot be opened, and a member      *)
(* whose checksum does not match its data cannot be read.                  *)
(*   member:  80 75 3 4  <len name> <len data> <name> <data> <checksum>    *)
(*   end:     80 75 5 6  <number of members>                               *)
(***************************************************************************)
\* main.py:652  b'PK\x03\x04'
ZipSignature == <<80, 75, 3, 4>>

ZipEndSignature == <<80, 75, 5, 6>>

\* At most this many members in an archive of the model.
MaxMembers == 2

\* File names, as ASCII: a.srt, b.srt, r.txt, c.SRT, d.sub
MemberNames ==
    {<<97, 46, 115, 114, 116>>, <<98, 46, 115, 114, 116>>, <<114, 46, 116, 120, 116>>,
     <<99, 46, 83, 82, 84>>, <<100, 46, 115, 117, 98>>}

\* Member data: empty, one line, and data that itself starts like an archive.
MemberData == {<<>>, <<49, 10>>, <<80, 75, 3, 4, 0>>}

Members == [name : MemberNames, data : MemberData]

RECURSIVE SumBytes(_)
SumBytes(b) == IF b = <<>> THEN 0 ELSE (Head(b) + SumBytes(Tail(b))) % 256

Checksum(data) == SumBytes(data)

EncodeMember(m) ==
    ZipSignature \o <<Len(m.name), Len(m.data)>> \o m.name \o m.data
        \o <<Checksum(m.data)>>

RECURSIVE EncodeMembers(_)
EncodeMembers(ms) ==
    IF ms = <<>> THEN <<>> ELSE EncodeMember(Head(ms)) \o EncodeMembers(Tail(ms))

\* The bytes of the archive of the members ms.
MakeZip(ms) == EncodeMembers(ms) \o ZipEndSignature \o <<Len(ms)>>

Take(b, n) == SubSeq(b, 1, IF n < Len(b) THEN n ELSE Len(b))

Drop(b, n) == SubSeq(b, n + 1, Len(b))

\* zipfile.ZipFile(io.BytesIO(content)): the members of the archive, each
\* with the checksum stored for it; ok is FALSE when the bytes are no archive
\* (BadZipFile is raised).
RECURSIVE ZipParse(_, _)
ZipParse(b, found) ==
    IF Take(b, 4) = ZipEndSignature
    THEN [ok |-> Len(b) = 5 /\ b[5] = Len(found), members |-> found]
    ELSE IF Take(b, 4) = ZipSignature /\ Len(b) >= 6
    THEN LET nlen == b[5]
             dlen == b[6]
         IN  IF Len(b) < 6 + nlen + dlen + 1 THEN [ok |-> FALSE, members |-> found]
             ELSE ZipParse(Drop(b, 6 + nlen + dlen + 1),
                           Append(found,
                                  [name |-> SubSeq(b, 7, 6 + nlen),
                                   data |-> SubSeq(b, 7 + nlen, 6 + nlen + dlen),
                                   sum |-> b[7 + nlen + dlen]]))
    ELSE [ok |-> FALSE, members |-> found]

ZipFile(content) == ZipParse(content, <<>>)

\* zf.namelist()
Namelist(zf) == [i \in 1..Len(zf.members) |-> zf.members[i].name]

\* zf.read(name): the data of the member of that name (the last one, when
\* several carry it); ok is FALSE when its checksum does not match (the read
\* raises).
ZipRead(zf, name) ==
    LET ms == zf.members
        at == CHOOSE i \in 1..Len(ms) :
                 /\ ms[i].name = name
                 /\ \A j \in (i + 1)..Len(ms) : ms[j].name # name
    IN  [ok |-> Checksum(ms[at].data) = ms[at].sum, data |-> ms[at].data]

\* name.endswith(suffix)
EndsWith(name, suffix) ==
    /\ Len(name) >= Len(suffix)
    /\ SubSeq(name, Len(name) - Len(suffix) + 1, Len(name)) = suffix

\* '.srt'
DotSrt == <<46, 115, 114, 116>>

\* FirstSrt without the loop of lines 655-657: no name is looked for.
FirstSrtNoLoop(names) == 0

\* main.py:655-657: the first name of the list that ends with '.srt', or 0.
FirstSrt(names) ==
    IF \E i \in 1..Len(names) : EndsWith(names[i], DotSrt)
    THEN CHOOSE i \in 1..Len(names) :
            /\ EndsWith(names[i], DotSrt)
            /\ \A j \in 1..(i - 1) : ~EndsWith(names[j], DotSrt)
    ELSE 0

\* main.py:652-662, the branch taken when the bytes start with the signature:
\* returned is TRUE with the value returned from inside the try, and FALSE
\* when the try block ends or raises (line 661 swallows every exception).
ExtractFromZip(content) ==
    LET zf == ZipFile(content)
        fell == [returned |-> FALSE, value |-> <<>>]
    IN  IF ~zf.ok THEN fell
        ELSE LET names == Namelist(zf)
                 srt == FirstSrt(names)
             IN  IF srt # 0 \/ names # <<>>
                 THEN LET got == ZipRead(zf, names[IF srt # 0 THEN srt ELSE 1])
                      IN  IF got.ok THEN [returned |-> TRUE, value |-> got.data]
                          ELSE fell
                 ELSE fell

\* main.py:646-664  _extract_subtitle_content
ExtractSubtitleContent(content) ==
    IF Take(content, 4) = ZipSignature
    THEN LET got == ExtractFromZip(content)
         IN  IF got.returned THEN got.value ELSE content
    ELSE content

\* Member lists of up to n members.
RECURSIVE MemberLists(_)
MemberLists(n) ==
    IF n = 0 THEN {<<>>}
    ELSE LET shorter == MemberLists(n - 1)
         IN  shorter \cup {Append(ms, m) : ms \in {x \in shorter : Len(x) = n - 1},
                                           m \in Members}

\* Bytes that are no archive: text, a bare signature, a signature and junk.
PlainContents ==
    {<<>>, <<49>>, <<49, 10, 50>>, <<80, 75>>, <<80, 75, 3, 4>>,
     <<80, 75, 3, 4, 9, 9>>, <<80, 75, 3, 5, 1>>}

\* How an archive's bytes were damaged on the way: the last byte dropped; the
\* first member's checksum byte changed.
Damage(b, ms, how) ==
    CASE how = "none" -> b
      [] how = "cut" -> SubSeq(b, 1, Len(b) - 1)
      [] how = "checksum" ->
            IF ms = <<>> THEN b
            ELSE LET at == 6 + Len(ms[1].name) + Len(ms[1].data) + 1
                 IN  [b EXCEPT ![at] = (b[at] + 1) % 256]

ZipInit ==
    /\ zmade \in [zip : {FALSE}, members : {<<>>}, damage : {"none"}]
                  \cup [zip : {TRUE}, members : MemberLists(MaxMembers), damage : {"none", "cut", "checksum"}]
    /\ IF zmade.zip
       THEN zcontent = Damage(MakeZip(zmade.members), zmade.members, zmade.damage)
       ELSE zcontent \in PlainContents
    /\ zpc = "start"
    /\ zout = <<>>
    /\ zagain = <<>>

ZipUnused ==
    /\ zmade = [zip |-> FALSE, members |-> <<>>, damage |-> "none"]
    /\ zcontent = <<>>
    /\ zpc = "idle"
    /\ zout = <<>>
    /\ zagain = <<>>

\* main.py:626, 749  content = self._extract_subtitle_content(content)
Extract ==
    /\ zpc = "start"
    /\ zout' = ExtractSubtitleContent(zcontent)
    /\ zpc' = "once"
    /\ UNCHANGED <<zcontent, zmade, zagain, hvars, pvars, ovars, svars, tvars, cvars>>

\* The same call on what the first call returned.
ExtractAgain ==
    /\ zpc = "once"
    /\ zagain' = ExtractSubtitleContent(zout)
    /\ zpc' = "twice"
    /\ UNCHANGED <<zcontent, zmade, zout, hvars, pvars, ovars, svars, tvars, cvars>>

ZipNext ==
    \/ Extract
    \/ ExtractAgain

(***************************************************************************)
(* The providers.  A call of search or download meets a remote site (or a  *)
(* library) whose behaviour during the call is a value of Nets or DNets:   *)
(* which request fails with a network error or timeout, the status of the  *)
(* responses, and what the body holds.  A function that may raise returns  *)
(* [raised, val]; try/except is TryExcept.                                 *)
(***************************************************************************)
\* results[:15], subs[:15] (opensubtitles.py:141, subscene.py:66, subdivx.py:103,
\* argenteam.py:73, tusubtitulo.py:70, subdl.py:75, yify.py:75, main.py:179)
Cap == 15

\* The remote lists up to Cap + MaxOver items.
MaxOver == 1

ItemCounts == {0, 2} \cup (Cap..(Cap + MaxOver))

\* Positions of the items of a response that are malformed.
BadSets == {{}, {1}, {2}}

NetOk == [fail |-> 0, status |-> 200, malformed |-> FALSE, launch_ok |-> TRUE,
          start_ok |-> TRUE, links |-> 1, n |-> 0, bad |-> {}]

\* fail: 0, or the request of the call (1: the first, 2: any later one) that
\* ends in a network error or timeout.  status: of every response.  malformed:
\* the body cannot be parsed (JSON), or holds none of the markup looked for.
\* start_ok, launch_ok: sync_playwright().start() returns an engine handle, the
\* browser can be launched.  links: titles on a search page.
\* n, bad: the items listed, and which of them are malformed.
Nets ==
    {[NetOk EXCEPT !.fail = 1]}
    \cup {[NetOk EXCEPT !.fail = 2, !.n = 2]}
    \cup {[NetOk EXCEPT !.status = 503, !.links = l, !.n = k] : l \in {0, 1}, k \in {0, 2}}
    \cup {[NetOk EXCEPT !.malformed = TRUE, !.links = 0]}
    \cup {[NetOk EXCEPT !.launch_ok = FALSE, !.n = 2]}
    \cup {[NetOk EXCEPT !.links = l, !.n = k, !.bad = b] :
             l \in {0, 1, 3}, k \in ItemCounts, b \in BadSets}

\* sent: a request went out (or the library or the browser was called).
Ok(v) == [raised |-> FALSE, val |-> v, sent |-> TRUE]

Raise == [raised |-> TRUE, val |-> <<>>, sent |-> TRUE]

\* A return before anything is asked of the network.
NoRequest(v) == [raised |-> FALSE, val |-> v, sent |-> FALSE]

\* try: r  except Exception: <the value is fallback>
TryExcept(r, fallback) == IF r.raised THEN Ok(fallback) ELSE r

\* results[:15]
Cap15(results) == SubSeq(results, 1, IF Len(results) < Cap THEN Len(results) ELSE Cap)

\* The provider field of a result of each class: the class's name attribute;
\* "Subliminal (<source>)" for the two over the library (main.py:184,
\* subliminal_provider.py:71); the items of OpenSubtitlesAPI are the API's own
\* and carry no provider key.
NameOf(prov) ==
    CASE prov = "SubliminalFallback" -> <<"Subliminal", "gestdown">>
      [] prov = "SubliminalProvider" -> <<"Subliminal", "gestdown">>
      [] prov = "OpenSubtitlesAPI" -> <<>>
      [] prov = "OpenSubtitlesProvider" -> <<"OpenSubtitles">>
      [] prov = "SubsceneProvider" -> <<"Subscene">>
      [] prov = "SubDivXProvider" -> <<"SubDivX">>
      [] prov = "ArgenteamProvider" -> <<"Argenteam">>
      [] prov = "TuSubtituloProvider" -> <<"TuSubtitulo">>
      [] prov = "SubdlProvider" -> <<"Subdl">>
      [] prov = "YifyProvider" -> <<"YIFY">>

\* What download_url holds: a page URL of the site ("url"), a numeric file id
\* ("id"), or the library's own id next to its handle ("handle").
RefKind(prov) ==
    CASE prov \in {"OpenSubtitlesProvider", "OpenSubtitlesAPI"} -> "id"
      [] prov \in {"SubliminalProvider", "SubliminalFallback"} -> "handle"
      [] OTHER -> "url"

\* The result made from item k of the remote's list by the entry point prov.
\* cls: a SubtitleResult (base.py:15-26) or a dict of main.py.  video: the
\* video the search was made for, which the workers of the application
\* note on what they find (0 elsewhere); no code reads it.
ResultOf(prov, k) ==
    [provider |-> NameOf(prov),
     kind |-> RefKind(prov),
     cls |-> IF prov \in {"OpenSubtitlesAPI", "SubliminalFallback"} THEN "dict"
             ELSE "SubtitleResult",
     by |-> prov,
     idx |-> k,
     video |-> 0]

\* A loop over the items lo..hi of the remote's list that appends one result
\* per well-formed item; guarded: the body is in its own try/except with
\* continue, so a malformed item is skipped.  Unguarded, a malformed item
\* raises out of the loop: raised, with the results appended so far.
RECURSIVE ItemLoop(_, _, _, _, _, _)
ItemLoop(prov, net, lo, hi, guarded, acc) ==
    IF lo > hi THEN [raised |-> FALSE, val |-> acc]
    ELSE IF lo \in net.bad
    THEN IF guarded THEN ItemLoop(prov, net, lo + 1, hi, guarded, acc)
         ELSE [raised |-> TRUE, val |-> acc]
    ELSE ItemLoop(prov, net, lo + 1, hi, guarded, Append(acc, ResultOf(prov, lo)))

\* The rows of one title page, each in its own try (subscene.py:89-139,
\* subdl.py:127-167, yify.py:102-163, tusubtitulo.py:125-159); the page's GET
\* is inside the function's try, so a network error gives [].
PageRows(prov, net) ==
    IF net.fail = 2 THEN <<>>
    ELSE ItemLoop(prov, net, 1, net.n, TRUE, <<>>).val

\* for url in links: results.extend(page rows); if len(results) >= 15: break
RECURSIVE PagesLoop(_, _, _, _)
PagesLoop(prov, net, left, acc) ==
    IF left = 0 \/ Len(acc) >= Cap THEN acc
    ELSE PagesLoop(prov, net, left - 1, acc \o PageRows(prov, net))

Min(a, b) == IF a < b THEN a ELSE b

\* main.py:92-126  OpenSubtitlesAPI.search: the items of "data" are returned
\* as they came; a malformed one is an item without "files", which holds no
\* file id.
OpenSubtitlesAPI_search(net) ==
    TryExcept(
        IF net.fail = 1 THEN Raise
        ELSE IF net.status = 200
        THEN IF net.malformed THEN Raise
             ELSE Ok([k \in 1..net.n |->
                        IF k \in net.bad
                        THEN [ResultOf("OpenSubtitlesAPI", k) EXCEPT !.kind = "none"]
                        ELSE ResultOf("OpenSubtitlesAPI", k)])
        ELSE Ok(<<>>),
        <<>>)

\* main.py:155-199  SubliminalFallback.search_for_video: the loop over
\* subs[:15] is inside the function's one try, and results is returned after it.
SubliminalFallback_search_for_video(c, net) ==
    IF ~c.subliminal THEN NoRequest(<<>>)
    ELSE IF net.fail # 0 THEN Ok(<<>>)
    ELSE Ok(ItemLoop("SubliminalFallback", net, 1, Min(net.n, Cap), FALSE, <<>>).val)

\* OpenSubtitlesProvider.search without lines 79-81.
OpenSubtitles_search_NoKeyCheck(c, net) ==
    Ok(Cap15(TryExcept(
        IF net.fail = 1 THEN Raise
        ELSE IF net.status # 200 THEN Ok(<<>>)
        ELSE IF net.malformed THEN Raise
        ELSE ItemLoop("OpenSubtitlesProvider", net, 1, net.n, TRUE, <<>>),
        <<>>).val))

\* opensubtitles.py:75-141  OpenSubtitlesProvider.search
OpenSubtitles_search(c, net) ==
    IF ~c.api_key THEN NoRequest(<<>>)
    ELSE Ok(Cap15(TryExcept(
            IF net.fail = 1 THEN Raise
            ELSE IF net.status # 200 THEN Ok(<<>>)
            ELSE IF net.malformed THEN Raise
            ELSE ItemLoop("OpenSubtitlesProvider", net, 1, net.n, TRUE, <<>>),
            <<>>).val))

\* subscene.py:26-66  SubsceneProvider.search: no status is looked at; without
\* title links the page the POST ended on is taken as the one title page.
Subscene_search(net) ==
    Ok(Cap15(TryExcept(
        IF net.fail = 1 THEN Raise
        ELSE Ok(PagesLoop("SubsceneProvider", net,
                          IF net.links = 0 THEN 1 ELSE Min(net.links, 3), <<>>)),
        <<>>).val))

\* yify.py:27-75  YifyProvider.search
YIFY_search(net) ==
    Ok(Cap15(TryExcept(
        IF net.fail = 1 THEN Raise
        ELSE Ok(PagesLoop("YifyProvider", net, net.links, <<>>)),
        <<>>).val))

\* subdl.py:77-100  _search_direct: the status is looked at here, and the page
\* is then fetched again by _get_subtitles_from_page.
Subdl_search_direct(net) ==
    IF net.fail = 2 THEN <<>>
    ELSE IF net.status = 200 THEN PageRows("SubdlProvider", net) ELSE <<>>

\* subdl.py:25-75  SubdlProvider.search
Subdl_search(net) ==
    Ok(Cap15(TryExcept(
        IF net.fail = 1 THEN Raise
        ELSE LET results == PagesLoop("SubdlProvider", net, net.links, <<>>)
             IN  Ok(IF results = <<>> THEN Subdl_search_direct(net) ELSE results),
        <<>>).val))

\* tusubtitulo.py:72-101  _search_direct: a link whose text does not hold the
\* query is passed over.
TuSubtitulo_search_direct(net) ==
    IF net.fail = 2 THEN <<>>
    ELSE ItemLoop("TuSubtituloProvider", net, 1, net.n, TRUE, <<>>).val

\* tusubtitulo.py:19-70  TuSubtituloProvider.search
TuSubtitulo_search(net) ==
    Ok(Cap15(TryExcept(
        IF net.fail = 1 THEN Raise
        ELSE LET results == PagesLoop("TuSubtituloProvider", net, net.links, <<>>)
             IN  Ok(IF results = <<>> THEN TuSubtitulo_search_direct(net) ELSE results),
        <<>>).val))

\* argenteam.py:75-104  _search_api: status 200 is required; the loop has no
\* try of its own, so an item that raises (item.get on what is not a dict)
\* ends it, and the results appended before it are returned.
Argenteam_search_api(net) ==
    IF net.fail = 2 \/ net.status # 200 \/ net.malformed THEN <<>>
    ELSE ItemLoop("ArgenteamProvider", net, 1, net.n, FALSE, <<>>).val

\* argenteam.py:19-73  ArgenteamProvider.search: the search page shows
\* net.links entries, each read in its own try; the API lists net.n items.
Argenteam_search(net) ==
    Ok(Cap15(TryExcept(
        IF net.fail = 1 THEN Raise
        ELSE LET results == ItemLoop("ArgenteamProvider", net, 1, net.links, TRUE, <<>>).val
             IN  Ok(IF results = <<>> THEN Argenteam_search_api(net) ELSE results),
        <<>>).val))

\* subliminal_provider.py:35-40  SubliminalProvider.search
Subliminal_search(net) == NoRequest(<<>>)

\* subliminal_provider.py:42-83  SubliminalProvider.search_for_video
Subliminal_search_for_video(c, net) ==
    IF ~c.subliminal THEN NoRequest(<<>>)
    ELSE IF net.fail # 0 THEN Ok(<<>>)
    ELSE Ok([k \in 1..Min(net.n, Cap) |-> ResultOf("SubliminalProvider", k)])

\* subdivx.py:28-31  SubDivXProvider.__init__.  playwright and browser are the
\* two attributes; engines and browsers count the engine handles started and
\* not stopped and the browsers launched and not closed; contexts those
\* opened and left open; calls the calls of search and download made.
SubDivX_new ==
    [playwright |-> "none", browser |-> "none", contexts |-> 0,
     engines |-> 0, browsers |-> 0, calls |-> 0]

\* subdivx.py:33-49  _init_browser: the instance after the call, and whether
\* the call returned True.  With self.browser None the engine is started and
\* assigned to self.playwright, whatever that attribute held, then the
\* browser is launched; a launch that fails leaves the engine started.
SubDivX_init_browser(c, sd, net) ==
    IF ~c.playwright THEN [ok |-> FALSE, sd |-> sd]
    ELSE IF sd.browser = "none"
    THEN IF ~net.start_ok THEN [ok |-> FALSE, sd |-> sd]
         ELSE IF net.launch_ok
         THEN [ok |-> TRUE, sd |-> [sd EXCEPT !.playwright = "started", !.browser = "live",
                                              !.engines = @ + 1, !.browsers = @ + 1]]
         ELSE [ok |-> FALSE, sd |-> [sd EXCEPT !.playwright = "started",
                                               !.engines = @ + 1]]
    ELSE [ok |-> TRUE, sd |-> sd]

\* subdivx.py:51-61  _close_browser: browser.close() and playwright.stop() in
\* one try whose except passes, so that a close that raises skips the stop;
\* both attributes are then set to None.
SubDivX_close_browser(sd, close_ok) ==
    LET closed == sd.browser = "live" /\ close_ok
        stopped == sd.playwright = "started" /\ (sd.browser = "none" \/ close_ok)
    IN  [sd EXCEPT !.playwright = "none", !.browser = "none",
                   !.browsers = IF closed THEN @ - 1 ELSE @,
                   !.engines = IF stopped THEN @ - 1 ELSE @]

\* Elements one selector finds on a page.
MaxElems == 2

\* A div found by selector 1 or 2: "ok" holds a link; "nolink" holds none;
\* "broken" makes a call on it raise.  An anchor found by selector 3:
\* "titled", or "untitled" when its text is empty.
DivKinds == {"ok", "nolink", "broken"}

LinkKinds == {"titled", "untitled"}

SeqsUpTo(S, n) == UNION {[1..k -> S] : k \in 0..n}

Soups == [s1 : SeqsUpTo(DivKinds, MaxElems), s2 : SeqsUpTo(DivKinds, MaxElems),
          s3 : SeqsUpTo(LinkKinds, MaxElems)]

\* subdivx.py:137-170  _extract_result: None without a link (line 142) and
\* None when anything raises (line 170); sel and k name the element.
SubDivX_extract_result(kind, sel, k) ==
    IF kind = "ok" THEN <<[sel |-> sel, k |-> k]>> ELSE <<>>

\* for titulo in <elems>: result = self._extract_result(titulo);
\* if result: results.append(result)
RECURSIVE ExtractLoop(_, _, _, _)
ExtractLoop(elems, sel, k, acc) ==
    IF k > Len(elems) THEN acc
    ELSE ExtractLoop(elems, sel, k + 1, acc \o SubDivX_extract_result(elems[k], sel, k))

\* subdivx.py:124-133  for link in <anchors>: if title: results.append(...)
RECURSIVE LinkLoop(_, _, _)
LinkLoop(links, k, acc) ==
    IF k > Len(links) THEN acc
    ELSE LinkLoop(links, k + 1,
                  IF links[k] = "titled" THEN Append(acc, [sel |-> 3, k |-> k]) ELSE acc)

\* _parse_results with selector 2 applied whatever selector 1 gave.
SubDivX_parse_results_NoCascade(page) ==
    LET r1 == ExtractLoop(page.s1, 1, 1, <<>>)
        r2 == ExtractLoop(page.s2, 2, 1, r1)
    IN  IF r2 = <<>> THEN LinkLoop(page.s3, 1, r2) ELSE r2

\* subdivx.py:105-135  _parse_results: results is one list; selector 2 runs
\* under "if not results", and so does selector 3 after it.
SubDivX_parse_results(page) ==
    LET r1 == ExtractLoop(page.s1, 1, 1, <<>>)
        r2 == IF r1 = <<>> THEN ExtractLoop(page.s2, 2, 1, r1) ELSE r1
    IN  IF r2 = <<>> THEN LinkLoop(page.s3, 1, r2) ELSE r2

\* The search page of the site: the n items listed are the divs selector 1
\* finds, the malformed ones among them "broken".
PageOf(net) ==
    [s1 |-> [k \in 1..net.n |-> IF k \in net.bad THEN "broken" ELSE "ok"],
     s2 |-> <<>>, s3 |-> <<>>]

\* The SubtitleResult objects of the elements found.
ResultsOf(found) == [j \in 1..Len(found) |-> ResultOf("SubDivXProvider", found[j].k)]

\* subdivx.py:63-103  SubDivXProvider.search: [raised, val, sd].  The context
\* opened at line 75 is closed at line 98, which a raise before it skips.
SubDivX_search(c, sd, net) ==
    IF ~c.playwright THEN [raised |-> FALSE, val |-> <<>>, sent |-> FALSE, sd |-> sd]
    ELSE LET init == SubDivX_init_browser(c, sd, net)
         IN  IF ~init.ok
             THEN [raised |-> FALSE, val |-> <<>>, sent |-> FALSE, sd |-> init.sd]
             ELSE IF net.fail = 1
             THEN [raised |-> FALSE, val |-> <<>>, sent |-> TRUE,
                   sd |-> [init.sd EXCEPT !.contexts = @ + 1]]
             ELSE [raised |-> FALSE, sent |-> TRUE, sd |-> init.sd,
                   val |-> Cap15(ResultsOf(SubDivX_parse_results(PageOf(net))))]

(***************************************************************************)
(* File names and paths are strings of ASCII codes.  os.path.join and open *)
(* are library code: os_path_join is posixpath.join for two arguments, and *)
(* a file can be opened for writing where its directory exists.            *)
(***************************************************************************)
Dot == 46

Slash == 47

\* "/d": the destination the caller passes, a directory of the root.
Destination == <<Slash, 100>>

\* "subtitle.zip", "subtitle.srt"
SubtitleZip == <<115, 117, 98, 116, 105, 116, 108, 101, 46, 122, 105, 112>>

SubtitleSrt == <<115, 117, 98, 116, 105, 116, 108, 101, 46, 115, 114, 116>>

\* The names a server supplies: "a.srt", "../a", "/a", "s/a".
ServerNames ==
    {<<97, Dot, 115, 114, 116>>, <<Dot, Dot, Slash, 97>>, <<Slash, 97>>, <<115, Slash, 97>>}

\* os.path.join(a, b): b when it is absolute, else a and b with one "/"
\* between them.
os_path_join(a, b) ==
    IF b # <<>> /\ b[1] = Slash THEN b
    ELSE IF a = <<>> \/ a[Len(a)] = Slash THEN a \o b
    ELSE a \o <<Slash>> \o b

\* The components of a path: the non-empty strings between its slashes.
RECURSIVE Components(_, _, _)
Components(path, k, cur) ==
    IF k > Len(path) THEN (IF cur = <<>> THEN <<>> ELSE <<cur>>)
    ELSE IF path[k] = Slash
    THEN (IF cur = <<>> THEN <<>> ELSE <<cur>>) \o Components(path, k + 1, <<>>)
    ELSE Components(path, k + 1, Append(cur, path[k]))

\* The directory an absolute path leads to: "." stays, ".." goes to the
\* parent, and the parent of the root is the root.
RECURSIVE Walk(_, _, _)
Walk(parts, k, at) ==
    IF k > Len(parts) THEN at
    ELSE IF parts[k] = <<Dot>> THEN Walk(parts, k + 1, at)
    ELSE IF parts[k] = <<Dot, Dot>>
    THEN Walk(parts, k + 1, IF at = <<>> THEN at ELSE SubSeq(at, 1, Len(at) - 1))
    ELSE Walk(parts, k + 1, Append(at, parts[k]))

Resolved(path) == Walk(Components(path, 1, <<>>), 1, <<>>)

\* The directories there are: the root and the destination.
Directories == {<<>>, Resolved(Destination)}

\* with open(filepath, 'wb') as f: the directory of the file has to exist
\* (FileNotFoundError).
CanOpen(file) ==
    LET at == Resolved(file)
    IN  at # <<>> /\ SubSeq(at, 1, Len(at) - 1) \in Directories

\* filename = <default>, replaced by what the server supplies: the name
\* matched by filename="?([^";\n]+)"? in Content-Disposition, or
\* data.get('file_name', 'subtitle.srt'); subdl.py:225-227 goes back to
\* "subtitle.srt" for a text response whose name does not end in ".srt".
FileName(prov, d) ==
    LET default == IF prov \in {"ArgenteamProvider", "TuSubtituloProvider",
                                "OpenSubtitlesProvider"}
                   THEN SubtitleSrt ELSE SubtitleZip
        filename == IF d.name = <<>> THEN default ELSE d.name
    IN  IF prov = "SubdlProvider" /\ d.text /\ ~EndsWith(filename, DotSrt)
        THEN SubtitleSrt ELSE filename

\* What the remote does during a download.  haslink: the page fetched first
\* holds what this provider looks for (a download link, the "link" key, a
\* subtitle the library could save).  direct: the URL held is itself a
\* download URL (subdl.py:178).
\* fstatus: the status of the response to the request for the file itself,
\* where it differs from that of the first response.
\* name: the file name the server supplies (the filename of the
\* Content-Disposition header, the API's file_name), <<>> for none.  text:
\* the Content-Type of the file's response holds "text".
DNetOk == [fail |-> 0, status |-> 200, malformed |-> FALSE, launch_ok |-> TRUE,
           start_ok |-> TRUE, haslink |-> TRUE, direct |-> FALSE, fstatus |-> 200,
           name |-> <<>>, text |-> FALSE]

DNets ==
    {[DNetOk EXCEPT !.fail = f] : f \in {1, 2}}
    \cup {[DNetOk EXCEPT !.status = 503, !.haslink = h] : h \in BOOLEAN}
    \cup {[DNetOk EXCEPT !.malformed = TRUE, !.haslink = FALSE]}
    \cup {[DNetOk EXCEPT !.launch_ok = FALSE]}
    \cup {[DNetOk EXCEPT !.fstatus = 503]}
    \cup {[DNetOk EXCEPT !.name = n, !.text = t] : n \in ServerNames, t \in BOOLEAN}
    \cup {[DNetOk EXCEPT !.haslink = h, !.direct = g] : h \in BOOLEAN, g \in BOOLEAN}

\* The outcomes of a download: path is "None" or "path" ("bytes" for the
\* content SubliminalFallback returns); fetches counts the requests issued;
\* wrote: a file was written under the destination.
DRaise(n) == [raised |-> TRUE, path |-> "None", fetches |-> n, wrote |-> FALSE, file |-> <<>>]

Failed(n) == [raised |-> FALSE, path |-> "None", fetches |-> n, wrote |-> FALSE, file |-> <<>>]

Saved(n) == [raised |-> FALSE, path |-> "path", fetches |-> n, wrote |-> TRUE, file |-> <<>>]

\* filepath = os.path.join(destination, filename); with open(filepath, 'wb')
\* as f: f.write(...); return filepath (subscene.py:181-194, argenteam.py:
\* 141-153, opensubtitles.py:170-176, subdl.py:212-230, tusubtitulo.py:205-216,
\* yify.py:211-222, subdivx.py:228-240).
SavedAs(prov, d, n) ==
    LET file == os_path_join(Destination, FileName(prov, d))
    IN  IF CanOpen(file) THEN [Saved(n) EXCEPT !.file = file] ELSE DRaise(n)

\* try: r  except Exception: return None
DTry(r) == IF r.raised THEN Failed(r.fetches) ELSE r

\* subtitle.download_url can be requested: the object has the attribute and it
\* holds a URL (requests raises on a string without a scheme before sending).
HasUrl(r) == r.cls = "SubtitleResult" /\ r.kind = "url"

\* The two requests every scraping download makes: the page at
\* subtitle.download_url, then the link found on it joined to the provider's
\* own BASE_URL; the response, whatever its status, is written.  No line of
\* these functions reads subtitle.provider.
PageThenFile(prov, r, d) ==
    DTry(IF ~HasUrl(r) THEN DRaise(0)
         ELSE IF d.fail = 1 THEN DRaise(1)
         ELSE IF ~d.haslink THEN Failed(1)
         ELSE IF d.fail = 2 THEN DRaise(2)
         ELSE SavedAs(prov, d, 2))

\* subscene.py:146-198
Subscene_download(r, d) == PageThenFile("SubsceneProvider", r, d)

\* argenteam.py:106-157
Argenteam_download(r, d) == PageThenFile("ArgenteamProvider", r, d)

\* tusubtitulo.py:166-221
TuSubtitulo_download(r, d) == PageThenFile("TuSubtituloProvider", r, d)

\* yify.py:170-227: without a link the URL is built from "/subtitle/<id>" in
\* download_url when it has one; haslink stands for either way.
YIFY_download(r, d) == PageThenFile("YifyProvider", r, d)

\* subdl.py:174-234
Subdl_download(r, d) ==
    IF HasUrl(r) /\ d.direct
    THEN DTry(IF d.fail = 1 THEN DRaise(1) ELSE SavedAs("SubdlProvider", d, 1))
    ELSE PageThenFile("SubdlProvider", r, d)

\* opensubtitles.py:143-180: int(subtitle.download_url) is evaluated, and
\* raises on anything but digits, before the POST is sent.  dl_response is
\* written (line 174) without a look at its status_code.
OpenSubtitles_download(c, r, d) ==
    IF ~c.api_key THEN Failed(0)
    ELSE DTry(IF r.cls # "SubtitleResult" \/ r.kind # "id" THEN DRaise(0)
              ELSE IF d.fail = 1 THEN DRaise(1)
              ELSE IF d.status # 200 THEN Failed(1)
              ELSE IF d.malformed THEN DRaise(1)
              ELSE IF ~d.haslink THEN Failed(1)
              ELSE IF d.fail = 2 THEN DRaise(2)
              ELSE SavedAs("OpenSubtitlesProvider", d, 2))

\* subliminal_provider.py:85-113: getattr(subtitle, '_subliminal_sub', None) is
\* set only on the results of this class's search_for_video (lines 77-78);
\* save_subtitles writes the file and returns a list, on which .items() raises.
Subliminal_download(c, r, d) ==
    IF ~c.subliminal THEN Failed(0)
    ELSE DTry(IF r.by # "SubliminalProvider" THEN Failed(0)
              ELSE IF d.fail # 0 THEN DRaise(1)
              ELSE IF d.haslink
              THEN [raised |-> TRUE, path |-> "None", fetches |-> 1, wrote |-> TRUE,
                    file |-> <<>>]
              ELSE Failed(1))

\* main.py:201-223  SubliminalFallback.download: subtitle_data.get(...), so the
\* argument has to be a dict; the content is returned, nothing is written.
SubliminalFallback_download(c, r, d) ==
    IF ~c.subliminal THEN Failed(0)
    ELSE DTry(IF r.cls # "dict" THEN DRaise(0)
              ELSE IF r.by # "SubliminalFallback" THEN Failed(0)
              ELSE IF d.fail # 0 THEN DRaise(1)
              ELSE IF d.haslink
              THEN [raised |-> FALSE, path |-> "bytes", fetches |-> 1, wrote |-> FALSE,
                    file |-> <<>>]
              ELSE Failed(1))

\* subdivx.py:172-244: [raised, path, fetches, wrote, sd].  The context is
\* closed at line 212 or 217; a raise before them leaves it open.
SubDivX_download(c, sd, r, d) ==
    IF ~c.playwright THEN [out |-> Failed(0), sd |-> sd]
    ELSE LET init == SubDivX_init_browser(c, sd, d)
             leaked == [init.sd EXCEPT !.contexts = @ + 1]
         IN  IF ~init.ok THEN [out |-> Failed(0), sd |-> init.sd]
             ELSE IF ~HasUrl(r) THEN [out |-> DTry(DRaise(0)), sd |-> leaked]
             ELSE IF d.fail = 1 THEN [out |-> DTry(DRaise(1)), sd |-> leaked]
             ELSE IF ~d.haslink THEN [out |-> Failed(1), sd |-> init.sd]
             ELSE IF d.fail = 2 THEN [out |-> DTry(DRaise(2)), sd |-> init.sd]
             ELSE [out |-> DTry(SavedAs("SubDivXProvider", d, 2)), sd |-> init.sd]

\* The classes with a search(query, language) method, with
\* search_for_video(video_path, language), and with download(subtitle, destination).
SearchClasses ==
    {"OpenSubtitlesAPI", "OpenSubtitlesProvider", "SubsceneProvider", "SubDivXProvider",
     "ArgenteamProvider", "TuSubtituloProvider", "SubdlProvider", "YifyProvider",
     "SubliminalProvider"}

VideoSearchClasses == {"SubliminalFallback", "SubliminalProvider"}

DownloadClasses ==
    (SearchClasses \ {"OpenSubtitlesAPI"}) \cup {"SubliminalFallback"}

\* The subclasses of SubtitleProvider (base.py:29-69).
ProviderClasses == SearchClasses \ {"OpenSubtitlesAPI"}

\* prov.search(query, language) against net.
SearchOutcome(prov, c, sd, net) ==
    CASE prov = "OpenSubtitlesAPI" -> OpenSubtitlesAPI_search(net)
      [] prov = "OpenSubtitlesProvider" -> OpenSubtitles_search(c, net)
      [] prov = "SubsceneProvider" -> Subscene_search(net)
      [] prov = "SubDivXProvider" -> SubDivX_search(c, sd, net)
      [] prov = "ArgenteamProvider" -> Argenteam_search(net)
      [] prov = "TuSubtituloProvider" -> TuSubtitulo_search(net)
      [] prov = "SubdlProvider" -> Subdl_search(net)
      [] prov = "YifyProvider" -> YIFY_search(net)
      [] prov = "SubliminalProvider" -> Subliminal_search(net)

\* prov.search_for_video(video_path, language) against net.
VideoSearchOutcome(prov, c, net) ==
    IF prov = "SubliminalFallback" THEN SubliminalFallback_search_for_video(c, net)
    ELSE Subliminal_search_for_video(c, net)

\* prov.download(r, destination) against d.
DownloadOutcome(prov, c, sd, r, d) ==
    CASE prov = "OpenSubtitlesProvider" -> OpenSubtitles_download(c, r, d)
      [] prov = "SubsceneProvider" -> Subscene_download(r, d)
      [] prov = "SubDivXProvider" -> SubDivX_download(c, sd, r, d).out
      [] prov = "ArgenteamProvider" -> Argenteam_download(r, d)
      [] prov = "TuSubtituloProvider" -> TuSubtitulo_download(r, d)
      [] prov = "SubdlProvider" -> Subdl_download(r, d)
      [] prov = "YifyProvider" -> YIFY_download(r, d)
      [] prov = "SubliminalProvider" -> Subliminal_download(c, r, d)
      [] prov = "SubliminalFallback" -> SubliminalFallback_download(c, r, d)

NoResult == [provider |-> <<>>, kind |-> "none", cls |-> "none", by |-> "none", idx |-> 0,
             video |-> 0]

NoCall == [prov |-> "none", op |-> "none", net |-> NetOk, dnet |-> DNetOk,
           results |-> <<>>, raised |-> FALSE, sent |-> FALSE,
           path |-> "None", fetches |-> 0, wrote |-> FALSE, file |-> <<>>]

\* The providers are constructed (SubDivXProvider.__init__, subdivx.py:28-31);
\* what is installed and whether a key is configured differ between machines.
ProvInit ==
    /\ caps \in [playwright : BOOLEAN, subliminal : BOOLEAN, api_key : BOOLEAN]
    /\ subdivx = SubDivX_new
    /\ ppc = "idle"
    /\ pcall = NoCall
    /\ held = NoResult

ProvUnused ==
    /\ caps = [playwright |-> FALSE, subliminal |-> FALSE, api_key |-> FALSE]
    /\ subdivx = SubDivX_new
    /\ ppc = "unused"
    /\ pcall = NoCall
    /\ held = NoResult

\* A call of prov.search.
search(prov) ==
    /\ ppc = "idle"
    /\ \E net \in Nets :
         LET out == SearchOutcome(prov, caps, subdivx, net)
         IN  /\ pcall' = [NoCall EXCEPT !.prov = prov, !.op = "search", !.net = net,
                                        !.results = out.val, !.raised = out.raised,
                                        !.sent = out.sent]
             /\ subdivx' = IF prov = "SubDivXProvider" THEN out.sd ELSE subdivx
    /\ ppc' = "searched"
    /\ UNCHANGED <<caps, held, hvars, zvars, ovars, svars, tvars, cvars>>

\* A call of prov.search_for_video.
search_for_video(prov) ==
    /\ ppc = "idle"
    /\ \E net \in Nets :
         LET out == VideoSearchOutcome(prov, caps, net)
         IN  pcall' = [NoCall EXCEPT !.prov = prov, !.op = "search_for_video",
                                     !.net = net, !.results = out.val,
                                     !.raised = out.raised, !.sent = out.sent]
    /\ ppc' = "searched"
    /\ UNCHANGED <<caps, subdivx, held, hvars, zvars, ovars, svars, tvars, cvars>>

\* The caller takes one of the results of the search and calls prov.download
\* with it; nothing in the caller's types ties the result to the provider.
download(prov) ==
    /\ ppc = "searched"
    /\ pcall.results # <<>>
    /\ \E k \in {1, Len(pcall.results)}, d \in DNets :
         LET r == pcall.results[k]
             out == DownloadOutcome(prov, caps, subdivx, r, d)
         IN  /\ held' = r
             /\ pcall' = [NoCall EXCEPT !.prov = prov, !.op = "download", !.dnet = d,
                                        !.raised = out.raised, !.sent = (out.fetches > 0),
                                        !.path = out.path, !.fetches = out.fetches,
                                        !.wrote = out.wrote, !.file = out.file]
             /\ subdivx' = IF prov = "SubDivXProvider"
                           THEN SubDivX_download(caps, subdivx, r, d).sd ELSE subdivx
    /\ ppc' = "downloaded"
    /\ UNCHANGED <<caps, hvars, zvars, ovars, svars, tvars, cvars>>

\* Calls made on one SubDivXProvider instance before it is disposed of.
MaxCalls == 3

\* What the site, the engine and the browser do during one call.
BrowserNets ==
    {[NetOk EXCEPT !.n = 2], [NetOk EXCEPT !.fail = 1],
     [NetOk EXCEPT !.start_ok = FALSE], [NetOk EXCEPT !.launch_ok = FALSE]}

BrowserDNets ==
    {DNetOk, [DNetOk EXCEPT !.fail = 1], [DNetOk EXCEPT !.haslink = FALSE],
     [DNetOk EXCEPT !.start_ok = FALSE], [DNetOk EXCEPT !.launch_ok = FALSE]}

\* One instance is constructed, on a machine with or without Playwright.
BrowserInit ==
    /\ caps \in [playwright : BOOLEAN, subliminal : {FALSE}, api_key : {FALSE}]
    /\ subdivx = SubDivX_new
    /\ ppc = "constructed"
    /\ pcall = NoCall
    /\ held = NoResult

\* A call of search on the instance.
SubDivX_search_call ==
    /\ ppc = "constructed"
    /\ subdivx.calls < MaxCalls
    /\ \E net \in BrowserNets :
         LET out == SubDivX_search(caps, subdivx, net)
         IN  /\ subdivx' = [out.sd EXCEPT !.calls = @ + 1]
             /\ pcall' = [NoCall EXCEPT !.prov = "SubDivXProvider", !.op = "search",
                                        !.net = net, !.results = out.val,
                                        !.raised = out.raised, !.sent = out.sent]
    /\ UNCHANGED <<caps, ppc, held, hvars, zvars, ovars, svars, tvars, cvars>>

\* A call of download on the instance, with a result of its own.
SubDivX_download_call ==
    /\ ppc = "constructed"
    /\ subdivx.calls < MaxCalls
    /\ \E d \in BrowserDNets :
         LET r == ResultOf("SubDivXProvider", 1)
             got == SubDivX_download(caps, subdivx, r, d)
         IN  /\ subdivx' = [got.sd EXCEPT !.calls = @ + 1]
             /\ held' = r
             /\ pcall' = [NoCall EXCEPT !.prov = "SubDivXProvider", !.op = "download",
                                        !.dnet = d, !.raised = got.out.raised,
                                        !.sent = (got.out.fetches > 0),
                                        !.path = got.out.path, !.fetches = got.out.fetches,
                                        !.wrote = got.out.wrote,
                                        !.file = got.out.file]
    /\ UNCHANGED <<caps, ppc, hvars, zvars, ovars, svars, tvars, cvars>>

\* subdivx.py:246-248  __del__: the instance is disposed of.
SubDivX_del ==
    /\ ppc = "constructed"
    /\ \E close_ok \in BOOLEAN : subdivx' = SubDivX_close_browser(subdivx, close_ok)
    /\ ppc' = "disposed"
    /\ UNCHANGED <<caps, pcall, held, hvars, zvars, ovars, svars, tvars, cvars>>

BrowserNext ==
    \/ SubDivX_search_call
    \/ SubDivX_download_call
    \/ SubDivX_del

ProvNext ==
    \/ \E prov \in SearchClasses : search(prov)
    \/ \E prov \in VideoSearchClasses : search_for_video(prov)
    \/ \E prov \in DownloadClasses : download(prov)

(***************************************************************************)
(* SubtitleDownloaderApp.  Every handler of the UI thread is one action;   *)
(* a worker thread (_do_search, _do_download, _do_download_all) is a       *)
(* record of workers that advances one blocking call at a time.            *)
(***************************************************************************)
\* Threads alive at once, threads started in one run, videos in the folder.
MaxWorkers == 2

MaxSpawns == 2

MaxVideos == 2

\* Items the remote lists for a video.
MaxHits == 2

WorkerIds == 1..MaxWorkers

\* The videos a folder may hold: too small for a fingerprint, large enough,
\* and large enough but unreadable.
\* The folders loaded: MaxVideos videos, of which one, at any place, is large
\* enough and readable, the others in turn too small and unreadable.
Folders ==
    {[i \in 1..MaxVideos |->
         IF i = k THEN [size |-> 2 * BlockSize, readable |-> TRUE]
         ELSE IF i % 2 = 0 THEN [size |-> 2 * BlockSize - 1, readable |-> TRUE]
         ELSE [size |-> 2 * BlockSize, readable |-> FALSE]] : k \in 1..MaxVideos}

\* get_file_hash(video_path) as the workers use it: None, or a fingerprint.
GetFileHash(video) ==
    IF video.readable /\ ~TooSmall(video.size) THEN <<"hash">> ELSE None

\* What the remote does during one search of the application.
AppNets ==
    {[NetOk EXCEPT !.fail = 1],
     [NetOk EXCEPT !.status = 503, !.n = MaxHits],
     [NetOk EXCEPT !.n = 0],
     [NetOk EXCEPT !.n = MaxHits],
     [NetOk EXCEPT !.n = MaxHits, !.bad = {1}]}

\* What the remote does when asked for a download link, or by the library.
AppDNets ==
    {[DNetOk EXCEPT !.fail = 1],
     [DNetOk EXCEPT !.status = 503],
     [DNetOk EXCEPT !.haslink = FALSE],
     DNetOk}

\* What requests.get(download_link) gives: an exception, or a status and a body.
Bodies == {<<>>, <<49, 10>>, MakeZip(<<[name |-> <<97, 46, 115, 114, 116>>, data |-> <<49, 10>>]>>)}

Fetches ==
    {[fail |-> TRUE, status |-> 200, body |-> <<>>],
     [fail |-> FALSE, status |-> 503, body |-> <<49, 10>>]}
    \cup {[fail |-> FALSE, status |-> 200, body |-> b] : b \in Bodies}

\* content = None, and content = <bytes>
NoContent == [some |-> FALSE, bytes |-> <<>>]

Content(b) == [some |-> TRUE, bytes |-> b]

\* content is None
FalsyOnlyNone(content) == ~content.some

\* not content (main.py:614, 744)
Falsy(content) == ~content.some \/ content.bytes = <<>>

IdleWorker ==
    [kind |-> "none", pc |-> "none", video |-> 0, videos |-> <<>>, i |-> 0,
     file_hash |-> None, results |-> <<>>, stages |-> <<>>,
     subtitle |-> NoResult, route |-> "none", link |-> FALSE,
     content |-> NoContent, downloaded |-> 0, done |-> <<>>]

\* sub.get('provider', 'OpenSubtitles')
ProviderField(sub) == IF sub.provider = <<>> THEN <<"OpenSubtitles">> ELSE sub.provider

\* attrs.get('language', 'es'): the items listed alternate es, en.
LanguageOf(sub) == IF sub.idx % 2 = 1 THEN "es" ELSE "en"

\* 'Subliminal' == provider
IsAggregatorExact(provider) == provider = <<"Subliminal">>

\* 'Subliminal' in provider
IsAggregator(provider) == \E k \in 1..Len(provider) : provider[k] = "Subliminal"

\* results = <the search of one stage>, made for the worker's video.
Invoked(w, stage, res) ==
    [w EXCEPT !.results = [k \in 1..Len(res) |-> [res[k] EXCEPT !.video = w.video]],
              !.stages = Append(@, [stage |-> stage, hits |-> Len(res)])]

\* The hash stage without the test of the key.
StageHashNoKey(w, c, net) ==
    IF w.file_hash # None
    THEN Invoked(w, "hash", OpenSubtitlesAPI_search(net).val)
    ELSE w

\* main.py:495-500 and 706-707: if file_hash and OPENSUBTITLES_API_KEY
StageHash(w, c, net) ==
    IF w.file_hash # None /\ c.api_key
    THEN Invoked(w, "hash", OpenSubtitlesAPI_search(net).val)
    ELSE w

\* The query stage without the test of results.
StageQueryAlways(w, c, net) ==
    IF c.api_key
    THEN Invoked(w, "query", OpenSubtitlesAPI_search(net).val)
    ELSE w

\* main.py:503-510 and 710-716: if not results and OPENSUBTITLES_API_KEY
StageQuery(w, c, net) ==
    IF w.results = <<>> /\ c.api_key
    THEN Invoked(w, "query", OpenSubtitlesAPI_search(net).val)
    ELSE w

\* main.py:513-515 and 719-720: if not results and SUBLIMINAL_AVAILABLE
StageFallback(w, c, net) ==
    IF w.results = <<>> /\ c.subliminal
    THEN Invoked(w, "aggregator", SubliminalFallback_search_for_video(c, net).val)
    ELSE w

\* main.py:128-147  OpenSubtitlesAPI.download(file_id): the link, or None.
OpenSubtitlesAPI_download(d) ==
    d.fail = 0 /\ d.status = 200 /\ ~d.malformed /\ d.haslink

\* _has_subtitle (main.py:410-420): a file "<stem><lang>.srt" is beside the video.
HasSubtitle(v) == \E f \in disk : f.video = v

\* The lowest free slot for a new thread.
FreeSlot == CHOOSE w \in WorkerIds :
                /\ workers[w].kind = "none"
                /\ \A u \in WorkerIds : workers[u].kind = "none" => w <= u

CanSpawn == spawned < MaxSpawns /\ \E w \in WorkerIds : workers[w].kind = "none"

Spawn(rec) ==
    /\ workers' = [workers EXCEPT ![FreeSlot] = rec]
    /\ spawned' = spawned + 1

\* The application makes its calls through its own two clients; the provider
\* classes stay as constructed.
AppInit ==
    /\ caps \in [playwright : {FALSE}, subliminal : BOOLEAN, api_key : BOOLEAN]
    /\ subdivx = SubDivX_new
    /\ ppc = "unused"
    /\ pcall = NoCall
    /\ held = NoResult
    /\ video_files \in Folders
    /\ selection = 0
    /\ current_video_path = 0
    /\ current_results = <<>>
    /\ tree = <<>>
    /\ after_q = <<>>
    /\ disk = {}
    /\ workers = [w \in WorkerIds |-> IdleWorker]
    /\ spawned = 0

AppUnused ==
    /\ video_files = <<>>
    /\ selection = 0
    /\ current_video_path = 0
    /\ current_results = <<>>
    /\ tree = <<>>
    /\ after_q = <<>>
    /\ disk = {}
    /\ workers = <<>>
    /\ spawned = 0

\* main.py:422-428  _on_video_select
_on_video_select(idx) ==
    /\ selection' = idx
    /\ current_video_path' = idx
    /\ UNCHANGED <<video_files, current_results, tree, after_q, disk, workers, spawned, hvars, zvars, pvars, svars, tvars, cvars>>

\* main.py:393-408  _load_videos: the listbox is emptied and filled again, which
\* drops its selection.  The button calls it, and so does every
\* root.after(100, self._load_videos) of the workers.
_load_videos ==
    /\ selection' = 0
    /\ UNCHANGED <<video_files, current_video_path, current_results, tree, after_q,
                   disk, workers, spawned, hvars, zvars, pvars, svars, tvars, cvars>>

\* main.py:465-477  _search_selected
_search_selected ==
    /\ selection # 0
    /\ CanSpawn
    /\ current_video_path' = selection
    /\ Spawn([IdleWorker EXCEPT !.kind = "search", !.pc = "hash", !.video = selection])
    /\ UNCHANGED <<video_files, selection, current_results, tree, after_q, disk, hvars, zvars, pvars, svars, tvars, cvars>>

\* main.py:528-552  update, the callback _update_results_tree queues: the rows
\* are drawn from the list the worker passed, each tagged with its index.
DrawnRows(results) == [k \in 1..Len(results) |-> [tag |-> k - 1, shows |-> results[k]]]

update ==
    /\ after_q # <<>>
    /\ tree' = DrawnRows(Head(after_q))
    /\ after_q' = Tail(after_q)
    /\ UNCHANGED <<video_files, selection, current_video_path, current_results,
                   disk, workers, spawned, hvars, zvars, pvars, svars, tvars, cvars>>

\* main.py:557-582  _download_selected, with row the selected row of the tree.
_download_selected(row) ==
    /\ row \in 1..Len(tree)
    /\ current_video_path # 0
    /\ tree[row].tag < Len(current_results)
    /\ CanSpawn
    /\ Spawn([IdleWorker EXCEPT !.kind = "download", !.pc = "dispatch",
                                !.subtitle = current_results[tree[row].tag + 1]])
    /\ UNCHANGED <<uivars, disk, hvars, zvars, pvars, svars, tvars, cvars>>

\* videos_sin_sub = [v for v in self.video_files if not self._has_subtitle(v)]
RECURSIVE WithoutSubtitleFrom(_)
WithoutSubtitleFrom(v) ==
    IF v > Len(video_files) THEN <<>>
    ELSE (IF HasSubtitle(v) THEN <<>> ELSE <<v>>) \o WithoutSubtitleFrom(v + 1)

videos_sin_sub == WithoutSubtitleFrom(1)

BatchWorker(videos) ==
    [IdleWorker EXCEPT !.kind = "batch", !.pc = "hash", !.videos = videos,
                       !.i = 1, !.video = videos[1]]

\* main.py:666-685  _download_all, the question answered with yes.
_download_all ==
    /\ video_files # <<>>
    /\ videos_sin_sub # <<>>
    /\ CanSpawn
    /\ Spawn(BatchWorker(videos_sin_sub))
    /\ UNCHANGED <<uivars, disk, hvars, zvars, pvars, svars, tvars, cvars>>

\* main.py:264-304  _on_drop with auto mode on; path is 0 for the folder, or a
\* video of it: _load_videos, then the batch thread for the videos without a
\* subtitle, or for the one video dropped when it has none.
_on_drop(path) ==
    /\ selection' = 0
    /\ LET videos == IF path = 0 THEN videos_sin_sub
                     ELSE IF HasSubtitle(path) THEN <<>> ELSE <<path>>
       IN  IF videos # <<>> /\ CanSpawn
           THEN Spawn(BatchWorker(videos))
           ELSE UNCHANGED <<workers, spawned>>
    /\ UNCHANGED <<video_files, current_video_path, current_results, tree, after_q,
                   disk, hvars, zvars, pvars, svars, tvars, cvars>>

\* The batch loop without the except of line 759: the thread leaves the loop
\* when the body raises.
NextVideoUncaught(w, outcome) ==
    LET done == Append(w.done, [video |-> w.video, outcome |-> outcome])
    IN  IF w.i < Len(w.videos) /\ outcome # "raised"
        THEN [IdleWorker EXCEPT !.kind = "batch", !.pc = "hash", !.videos = w.videos,
                                !.i = w.i + 1, !.video = w.videos[w.i + 1],
                                !.downloaded = w.downloaded, !.done = done]
        ELSE [IdleWorker EXCEPT !.kind = "batch", !.pc = "report", !.videos = w.videos,
                                !.i = w.i, !.video = w.video,
                                !.downloaded = w.downloaded, !.done = done]

\* main.py:692-760  for i, video_path in enumerate(videos): the loop goes on to
\* its next video, or leaves the loop after the last, however the body ended
\* (outcome: "written", "nothing", or "raised" into the except of line 759).
\* done is the record of the videos gone through.  The names bound in the
\* body are not read after the loop: the report uses downloaded and total.
NextVideo(w, outcome) ==
    LET done == Append(w.done, [video |-> w.video, outcome |-> outcome])
    IN  IF w.i < Len(w.videos)
        THEN [IdleWorker EXCEPT !.kind = "batch", !.pc = "hash", !.videos = w.videos,
                                !.i = w.i + 1, !.video = w.videos[w.i + 1],
                                !.downloaded = w.downloaded, !.done = done]
        ELSE [IdleWorker EXCEPT !.kind = "batch", !.pc = "report", !.videos = w.videos,
                                !.i = w.i, !.video = w.video,
                                !.downloaded = w.downloaded, !.done = done]

Set(w, rec) ==
    /\ workers' = [workers EXCEPT ![w] = rec]
    /\ UNCHANGED spawned

\* main.py:484 and 492, 698 and 703: file_hash = get_file_hash(video_path);
\* results = [].  stages, the record of the searches made for this video,
\* starts empty.
StepHash(w) ==
    /\ workers[w].pc = "hash"
    /\ Set(w, [workers[w] EXCEPT !.pc = "stage1", !.results = <<>>, !.stages = <<>>,
                                 !.file_hash = GetFileHash(video_files[workers[w].video])])
    /\ UNCHANGED <<uivars, disk, hvars, zvars, pvars, svars, tvars, cvars>>

\* main.py:495-500, 706-707
StepStage1(w) ==
    /\ workers[w].pc = "stage1"
    /\ \E net \in AppNets :
         Set(w, [StageHash(workers[w], caps, net) EXCEPT !.pc = "stage2"])
    /\ UNCHANGED <<uivars, disk, hvars, zvars, pvars, svars, tvars, cvars>>

\* main.py:503-510, 710-716
StepStage2(w) ==
    /\ workers[w].pc = "stage2"
    /\ \E net \in AppNets :
         Set(w, [StageQuery(workers[w], caps, net) EXCEPT !.pc = "stage3"])
    /\ UNCHANGED <<uivars, disk, hvars, zvars, pvars, svars, tvars, cvars>>

\* results[-1]
LastResult(results) == results[Len(results)]

\* main.py:723  sub = results[0]
FirstResult(results) == results[1]

\* main.py:513-515, 719-723: after it _do_search publishes; the batch takes
\* results[0] when there is one, and goes on to the next video when not.
StepStage3(w) ==
    /\ workers[w].pc = "stage3"
    /\ \E net \in AppNets :
         LET after == StageFallback(workers[w], caps, net)
         IN  Set(w, IF after.kind = "search" THEN [after EXCEPT !.pc = "publish"]
                    ELSE IF after.results # <<>>
                    THEN [after EXCEPT !.pc = "dispatch", !.subtitle = FirstResult(after.results)]
                    ELSE [NextVideo(after, "nothing") EXCEPT !.stages = after.stages])
    /\ UNCHANGED <<uivars, disk, hvars, zvars, pvars, svars, tvars, cvars>>

\* main.py:517-526: self.current_results = results; the redraw is queued.
Publish(w) ==
    /\ workers[w].pc = "publish"
    /\ current_results' = workers[w].results
    /\ after_q' = Append(after_q, workers[w].results)
    /\ Set(w, IdleWorker)
    /\ UNCHANGED <<video_files, selection, current_video_path, tree, disk, hvars, zvars, pvars, svars, tvars, cvars>>

\* The dispatch with 'Subliminal' == provider in place of the substring test.
RouteOfExact(sub) ==
    IF IsAggregatorExact(ProviderField(sub)) THEN "aggregator" ELSE "http"

\* main.py:595, 730: if 'Subliminal' in provider
RouteOf(sub) ==
    IF IsAggregator(ProviderField(sub)) THEN "aggregator" ELSE "http"

\* main.py:587-604, 724-737: the aggregator's download returns the content or
\* None; the other path needs files[0]['file_id'], which the aggregator's
\* results hold as None.
StepDispatch(w) ==
    /\ workers[w].pc = "dispatch"
    /\ LET me == workers[w]
           route == RouteOf(me.subtitle)
       IN  IF route = "aggregator"
           THEN \E d \in AppDNets, b \in Bodies \ {<<>>} :
                  LET out == SubliminalFallback_download(caps, me.subtitle, d)
                  IN  Set(w, [me EXCEPT !.route = route, !.pc = "save",
                                        !.content = IF out.path = "bytes" THEN Content(b)
                                                    ELSE NoContent])
           ELSE Set(w, [me EXCEPT !.route = route,
                                  !.pc = IF me.subtitle.kind = "id" THEN "link" ELSE "save"])
    /\ UNCHANGED <<uivars, disk, hvars, zvars, pvars, svars, tvars, cvars>>

\* main.py:605, 738: download_link = self.opensubtitles.download(file_id)
StepLink(w) ==
    /\ workers[w].pc = "link"
    /\ \E d \in AppDNets :
         LET link == OpenSubtitlesAPI_download(d)
         IN  Set(w, [workers[w] EXCEPT !.link = link,
                                       !.pc = IF link THEN "fetch" ELSE "save"])
    /\ UNCHANGED <<uivars, disk, hvars, zvars, pvars, svars, tvars, cvars>>

\* main.py:606-612: requests.get in a try whose except passes; 739-742: the
\* same call with no try of its own, so that it raises into the except of the
\* loop body (line 759) and the loop goes on.
StepFetch(w) ==
    /\ workers[w].pc = "fetch"
    /\ \E f \in Fetches :
         LET me == workers[w]
             got == IF ~f.fail /\ f.status = 200 THEN Content(f.body) ELSE NoContent
         IN  Set(w, IF f.fail /\ me.kind = "batch" THEN NextVideo(me, "raised")
                    ELSE [me EXCEPT !.content = got, !.pc = "save"])
    /\ UNCHANGED <<uivars, disk, hvars, zvars, pvars, svars, tvars, cvars>>

\* The file "<stem>.<language>.srt" beside the video is created or replaced.
Written(video, sub, content) ==
    {f \in disk : ~(f.video = video /\ f.lang = LanguageOf(sub))}
        \cup {[video |-> video, lang |-> LanguageOf(sub),
               data |-> ExtractSubtitleContent(content.bytes)]}

\* downloaded += 1 placed before the write.
CountedBeforeWrite(me, write_ok) == [me EXCEPT !.downloaded = @ + 1]

\* main.py:754-757  downloaded += 1 follows the write, and is not reached when
\* open or write raises.
Counted(me, write_ok) == IF write_ok THEN [me EXCEPT !.downloaded = @ + 1] ELSE me

\* main.py:614-644: without content the worker reports and returns; with it the
\* file goes beside self.current_video_path as read now; an error of open or
\* write is caught and reported.  main.py:744-757: the batch writes beside its
\* own video_path and counts; an error is caught at line 759.
StepSave(w) ==
    /\ workers[w].pc = "save"
    /\ LET me == workers[w]
           target == IF me.kind = "batch" THEN me.video ELSE current_video_path
       IN  IF Falsy(me.content)
           THEN Set(w, IF me.kind = "batch" THEN NextVideo(me, "nothing") ELSE IdleWorker)
                  /\ UNCHANGED disk
           ELSE \E write_ok \in BOOLEAN :
                  /\ disk' = IF write_ok THEN Written(target, me.subtitle, me.content)
                             ELSE disk
                  /\ Set(w, IF me.kind = "batch"
                            THEN NextVideo(Counted(me, write_ok),
                                           IF write_ok THEN "written" ELSE "raised")
                            ELSE IdleWorker)
    /\ UNCHANGED <<uivars, hvars, zvars, pvars, svars, tvars, cvars>>

\* main.py:762-765: the completion report of the batch; the thread ends.
StepReport(w) ==
    /\ workers[w].pc = "report"
    /\ Set(w, IdleWorker)
    /\ UNCHANGED <<uivars, disk, hvars, zvars, pvars, svars, tvars, cvars>>

\* The application when a search for its first video has found MaxHits
\* results and the table shows them; spawned counts the threads started
\* from then on.
TableInit ==
    /\ caps \in [playwright : {FALSE}, subliminal : BOOLEAN, api_key : {TRUE}]
    /\ subdivx = SubDivX_new
    /\ ppc = "unused"
    /\ pcall = NoCall
    /\ held = NoResult
    /\ video_files \in Folders
    /\ selection = 1
    /\ current_video_path = 1
    /\ current_results =
          StageQuery([IdleWorker EXCEPT !.video = 1], caps, [NetOk EXCEPT !.n = MaxHits]).results
    /\ tree = DrawnRows(current_results)
    /\ after_q = <<>>
    /\ disk = {}
    /\ workers = [w \in WorkerIds |-> IdleWorker]
    /\ spawned = 0

\* The handlers and workers of single-video mode.
TableNext ==
    \/ \E idx \in 1..MaxVideos : _on_video_select(idx)
    \/ _load_videos
    \/ _search_selected
    \/ update
    \/ \E row \in 1..MaxHits : _download_selected(row)
    \/ \E w \in WorkerIds :
         \/ StepHash(w)
         \/ StepStage1(w)
         \/ StepStage2(w)
         \/ StepStage3(w)
         \/ Publish(w)
         \/ StepDispatch(w)
         \/ StepLink(w)
         \/ StepFetch(w)
         \/ StepSave(w)

AppNext ==
    \/ \E idx \in 1..MaxVideos : _on_video_select(idx)
    \/ _load_videos
    \/ _search_selected
    \/ update
    \/ \E row \in 1..MaxHits : _download_selected(row)
    \/ _download_all
    \/ \E path \in 0..MaxVideos : _on_drop(path)
    \/ \E w \in WorkerIds :
         \/ StepHash(w)
         \/ StepStage1(w)
         \/ StepStage2(w)
         \/ StepStage3(w)
         \/ Publish(w)
         \/ StepDispatch(w)
         \/ StepLink(w)
         \/ StepFetch(w)
         \/ StepSave(w)
         \/ StepReport(w)

(***************************************************************************)
(* The persist step.  File names and the text of a language attribute are  *)
(* strings of ASCII codes, a path is [dir, name].  pathlib and open are    *)
(* library code: Stem, Joined and OpenWrite stand for Path.stem, the "/"   *)
(* of Path and open(path, 'wb') followed by write.                         *)
(***************************************************************************)
\* ".", "/", ".srt", "es", "en", "None", "pt-BR", "x/y"
TextEs == <<101, 115>>

TextEn == <<101, 110>>

TextNone == <<78, 111, 110, 101>>

\* The video files: S.1.mkv and S.mkv, in the directories d1 and d2.
VideoPaths ==
    [dir : {"d1", "d2"}, name : {<<83, 46, 49, 46, 109, 107, 118>>, <<83, 46, 109, 107, 118>>}]

\* name.rfind('.'), counted from 1; 0 when there is no dot.
RFindDot(name) ==
    IF \E i \in 1..Len(name) : name[i] = Dot
    THEN CHOOSE i \in 1..Len(name) :
            name[i] = Dot /\ \A j \in (i + 1)..Len(name) : name[j] # Dot
    ELSE 0

\* name.find('.'), counted from 1; 0 when there is no dot.
FindDot(name) ==
    IF \E i \in 1..Len(name) : name[i] = Dot
    THEN CHOOSE i \in 1..Len(name) :
            name[i] = Dot /\ \A j \in 1..(i - 1) : name[j] # Dot
    ELSE 0

\* The stem cut at the first dot of the name.
StemAtFirstDot(name) ==
    LET i == FindDot(name)
    IN  IF 1 < i /\ i < Len(name) THEN SubSeq(name, 1, i - 1) ELSE name

\* main.py:622, 628 and 745, 751  video.stem: the name up to its last dot,
\* when that dot is neither the first nor the last character.
Stem(name) ==
    LET i == RFindDot(name)
    IN  IF 1 < i /\ i < Len(name) THEN SubSeq(name, 1, i - 1) ELSE name

\* The language attribute of a result: absent, null, or a text.  The
\* structured API sends what it sends (src/main.py:117-119 hands its items on
\* unread); the aggregator's results hold 'es' or 'en' (main.py:180, 187).
Languages(by) ==
    IF by = "SubliminalFallback"
    THEN {[kind |-> "str", text |-> t] : t \in {TextEs, TextEn}}
    ELSE {[kind |-> "missing", text |-> <<>>], [kind |-> "null", text |-> <<>>]}
         \cup {[kind |-> "str", text |-> t] :
                  t \in {TextEs, TextEn, <<112, 116, 45, 66, 82>>, <<120, 47, 121>>}}

\* main.py:623, 746  attrs.get('language', 'es'), as the f-string prints it.
LanguageText(language) ==
    CASE language.kind = "missing" -> TextEs
      [] language.kind = "null" -> TextNone
      [] OTHER -> language.text

\* main.py:628, 751  sub_name = f"{video.stem}.{language}.srt"
SubName(video, language) ==
    Stem(video.name) \o <<Dot>> \o LanguageText(language) \o <<Dot, 115, 114, 116>>

\* main.py:629, 752  sub_path = video.parent / sub_name: a name with a slash
\* names a file in a directory below, and no such directory is there.
Joined(video, name) ==
    [dir |-> video.dir, name |-> name,
     below |-> \E i \in 1..Len(name) : name[i] = Slash]

\* open(path, 'wb') with a numbered name when the file exists.
OpenWriteNumbered(files, path, data, io) ==
    IF path.below \/ io = "open" THEN [raised |-> TRUE, files |-> files]
    ELSE LET taken == \E f \in files : f.dir = path.dir /\ f.name = path.name
             name == IF taken THEN path.name \o <<Dot, 49>> ELSE path.name
         IN  [raised |-> io = "write",
              files |-> {f \in files : ~(f.dir = path.dir /\ f.name = name)}
                           \cup {[dir |-> path.dir, name |-> name,
                                  data |-> IF io = "write" THEN <<>> ELSE data]}]

\* main.py:631-632, 754-755  with open(sub_path, 'wb') as f: f.write(content).
\* open creates the file or empties the one that is there; io tells whether
\* open or write meets an OS error.
OpenWrite(files, path, data, io) ==
    IF path.below \/ io = "open" THEN [raised |-> TRUE, files |-> files]
    ELSE [raised |-> io = "write",
          files |-> {f \in files : ~(f.dir = path.dir /\ f.name = path.name)}
                       \cup {[dir |-> path.dir, name |-> path.name,
                              data |-> IF io = "write" THEN <<>> ELSE data]}]

\* Files that may be beside the videos before: S.1.es.srt and S.1.en.srt in
\* d1, S.1.es.srt in d2.
FoundFiles ==
    {[dir |-> "d1", name |-> <<83, 46, 49, 46, 101, 115, 46, 115, 114, 116>>, data |-> <<48>>],
     [dir |-> "d1", name |-> <<83, 46, 49, 46, 101, 110, 46, 115, 114, 116>>, data |-> <<48>>],
     [dir |-> "d2", name |-> <<83, 46, 49, 46, 101, 115, 46, 115, 114, 116>>, data |-> <<48>>]}

\* src/src/utils/file_utils.py:15  '.srt', '.sub', '.ssa', '.ass', '.vtt'
SUBTITLE_EXTENSIONS ==
    {<<Dot, 115, 114, 116>>, <<Dot, 115, 117, 98>>, <<Dot, 115, 115, 97>>,
     <<Dot, 97, 115, 115>>, <<Dot, 118, 116, 116>>}

\* main.py:416  ['.es', '.en', '.spa', '.eng']
SuffixLanguages ==
    {<<Dot, 101, 115>>, <<Dot, 101, 110>>, <<Dot, 115, 112, 97>>, <<Dot, 101, 110, 103>>}

\* Path.exists() of a name in the directory of the video.
Exists(files, dir, name) == \E f \in files : f.dir = dir /\ f.name = name

\* main.py:410-420  _has_subtitle(video_path): for each extension, the video's
\* name with its suffix replaced by it, or the stem followed by one of four
\* language suffixes and the extension, is a file beside the video.
_has_subtitle(video, files) ==
    \E ext \in SUBTITLE_EXTENSIONS :
        \/ Exists(files, video.dir, Stem(video.name) \o ext)
        \/ \E lang \in SuffixLanguages :
              Exists(files, video.dir, Stem(video.name) \o lang \o ext)

SaveJobs ==
    UNION {[mode : {"single", "batch"}, video : VideoPaths, by : {by},
            language : Languages(by), content : {NoContent} \cup {Content(b) : b \in Bodies},
            io : {"ok", "open", "write"}, found : SUBSET FoundFiles]
              : by \in {"OpenSubtitlesAPI", "SubliminalFallback"}}

SaveInit ==
    /\ sjob \in SaveJobs
    /\ sfiles = sjob.found
    /\ spc = "start"
    /\ sname = None
    /\ scount = 0

SaveUnused ==
    /\ sjob = <<>>
    /\ sfiles = {}
    /\ spc = "idle"
    /\ sname = None
    /\ scount = 0

\* main.py:620-632, 744-755: the lines the two workers share.
Persist ==
    LET name == SubName(sjob.video, sjob.language)
        out == OpenWrite(sfiles, Joined(sjob.video, name),
                         ExtractSubtitleContent(sjob.content.bytes), sjob.io)
    IN  /\ sname' = name
        /\ sfiles' = out.files
        /\ spc' = IF out.raised THEN "failed" ELSE "saved"

\* main.py:614-644  the end of _do_download: without content it reports and
\* returns; an exception of the block is caught and reported (line 640).
SaveSingle ==
    /\ spc = "start"
    /\ sjob.mode = "single"
    /\ IF Falsy(sjob.content)
       THEN spc' = "nothing" /\ UNCHANGED <<sfiles, sname>>
       ELSE Persist
    /\ UNCHANGED <<sjob, scount, hvars, zvars, pvars, ovars, tvars, cvars>>

\* main.py:744-759  the end of the loop body of _do_download_all: the counter
\* goes up after the write; an exception is caught at line 759.
SaveBatch ==
    /\ spc = "start"
    /\ sjob.mode = "batch"
    /\ IF Falsy(sjob.content)
       THEN spc' = "nothing" /\ UNCHANGED <<sfiles, sname, scount>>
       ELSE Persist /\ scount' = IF spc' = "saved" THEN scount + 1 ELSE scount
    /\ UNCHANGED <<sjob, hvars, zvars, pvars, ovars, tvars, cvars>>

SaveNext ==
    \/ SaveSingle
    \/ SaveBatch

\* The steps of the thread in slot w that runs _do_download_all.
BatchStep(w) ==
    \/ StepHash(w)
    \/ StepStage1(w)
    \/ StepStage2(w)
    \/ StepStage3(w)
    \/ StepDispatch(w)
    \/ StepLink(w)
    \/ StepFetch(w)
    \/ StepSave(w)
    \/ StepReport(w)

\* The application used for batches only: download-all and drops.
BatchNext ==
    \/ _download_all
    \/ \E path \in 0..MaxVideos : _on_drop(path)
    \/ \E w \in WorkerIds : BatchStep(w)

(***************************************************************************)
(* The results table.  A cell is the string Tk hands back for it, a string *)
(* of ASCII codes.  A Python value of the sort is [t, n, s]: a number      *)
(* (t = "num", n its value times Scale, so that int and float compare), a  *)
(* str (t = "str", s its characters), or the ValueError of float().        *)
(***************************************************************************)
\* main.py:344  columns
Columns == {"Release", "Idioma", "Descargas", "FPS"}

\* A number is held times Scale: one digit after the decimal point is kept.
Scale == 10

\* Activations of a header counted after one redraw.
MaxClicks == 3

Num(n) == [t |-> "num", n |-> n, s |-> <<>>]

Str(s) == [t |-> "str", n |-> 0, s |-> s]

ValueError == [t |-> "error", n |-> 0, s |-> <<>>]

\* val.isdigit()
IsDigit(val) == val # <<>> /\ \A i \in 1..Len(val) : val[i] \in 48..57

\* val.replace('.', '')
WithoutDots(val) == SelectSeq(val, LAMBDA c : c # Dot)

\* int(val) of a string of digits
RECURSIVE IntOf(_)
IntOf(val) ==
    IF val = <<>> THEN 0
    ELSE IntOf(SubSeq(val, 1, Len(val) - 1)) * 10 + (val[Len(val)] - 48)

\* float(val) of digits and dots: a number for at most one dot (the cells of
\* the model hold no more than one digit after it), else ValueError.
FloatOf(val) ==
    IF Len(val) - Len(WithoutDots(val)) > 1 THEN ValueError
    ELSE LET at == FindDot(val)
             whole == SubSeq(val, 1, at - 1)
             frac == SubSeq(val, at + 1, Len(val))
         IN  Num(IntOf(whole) * Scale + (IF frac = <<>> THEN 0 ELSE IntOf(frac)))

\* main.py:439  int(val) if val.isdigit() else float(val) if
\* val.replace('.', '').isdigit() else val
Converted(val) ==
    IF IsDigit(val) THEN Num(IntOf(val) * Scale)
    ELSE IF IsDigit(WithoutDots(val)) THEN FloatOf(val)
    ELSE Str(val)

\* str.lower()
Lower(s) == [i \in 1..Len(s) |-> IF s[i] \in 65..90 THEN s[i] + 32 ELSE s[i]]

\* s < t of two str
RECURSIVE StrLess(_, _)
StrLess(s, t) ==
    IF t = <<>> THEN FALSE
    ELSE IF s = <<>> THEN TRUE
    ELSE IF Head(s) # Head(t) THEN Head(s) < Head(t)
    ELSE StrLess(Tail(s), Tail(t))

\* a < b of two keys of one type
Less(a, b) == IF a.t = "num" THEN a.n < b.n ELSE StrLess(a.s, b.s)

\* list.sort keeps the order of equal keys: x goes behind every entry that is
\* not greater.
RECURSIVE Insert(_, _)
Insert(x, sorted) ==
    IF sorted = <<>> THEN <<x>>
    ELSE IF Less(x.key, Head(sorted).key) THEN <<x>> \o sorted
    ELSE <<Head(sorted)>> \o Insert(x, Tail(sorted))

RECURSIVE SortStable(_)
SortStable(items) ==
    IF items = <<>> THEN <<>>
    ELSE Insert(items[Len(items)], SortStable(SubSeq(items, 1, Len(items) - 1)))

Reversed(items) == [i \in 1..Len(items) |-> items[Len(items) + 1 - i]]

\* items.sort(key=..., reverse=reverse): with reverse the list is reversed,
\* sorted and reversed again, which keeps equal keys in their order too.
\* Comparing a str with a number raises TypeError.
ListSort(items, reverse) ==
    IF \E i, j \in 1..Len(items) : items[i].key.t # items[j].key.t
    THEN [raised |-> TRUE, items |-> items]
    ELSE [raised |-> FALSE,
          items |-> IF reverse THEN Reversed(SortStable(Reversed(items)))
                    ELSE SortStable(items)]

\* main.py:436-447: the values are converted inside a try; when none raises,
\* numeric is True and the key of an item is its converted value, a str as it
\* is; when one raises, the items stay strings and the key is
\* str(x[0]).lower().
SortKey(vals, i) ==
    LET conv == [k \in 1..Len(vals) |-> Converted(vals[k])]
        numeric == \A k \in 1..Len(vals) : conv[k].t # "error"
    IN  IF numeric THEN conv[i] ELSE Str(Lower(vals[i]))

\* The cells update draws for a result list (main.py:533-550): release[:50],
\* the language's display name, download_count, fps.  In turn: results of the
\* API (B a c / En Es Es / 9 10 9 / 23.9 25 25); results of the aggregator
\* (download_count 0, fps '-'); API results of which one lacks fps and one is
\* the release 1917; API results with the release 1.2.3.
Row(item, release, language, downloads, fps) ==
    [item |-> item,
     values |-> [Release |-> release, Idioma |-> language, Descargas |-> downloads,
                 FPS |-> fps]]

Tables ==
    {<<Row(1, <<66>>, <<69, 110>>, <<57>>, <<50, 51, 46, 57>>),
       Row(2, <<97>>, <<69, 115>>, <<49, 48>>, <<50, 53>>),
       Row(3, <<99>>, <<69, 115>>, <<57>>, <<50, 53>>)>>,
     <<Row(1, <<121>>, <<69, 115>>, <<48>>, <<45>>),
       Row(2, <<120>>, <<69, 110>>, <<48>>, <<45>>)>>,
     <<Row(1, <<49, 57, 49, 55>>, <<69, 115>>, <<53>>, <<45>>),
       Row(2, <<97>>, <<69, 115>>, <<51>>, <<50, 53>>)>>,
     <<Row(1, <<49, 46, 50, 46, 51>>, <<69, 110>>, <<50>>, <<50, 53>>),
       Row(2, <<66>>, <<69, 110>>, <<49>>, <<50, 52>>),
       Row(3, <<97>>, <<69, 110>>, <<49>>, <<50, 52>>)>>}

NoStreak == [col |-> "", n |-> 0]

NoSort == [col |-> "", raised |-> FALSE, reverse |-> FALSE, before |-> <<>>]

\* main.py:347-351: the table is empty and every column's flag is False.
SortInit ==
    /\ results_tree = <<>>
    /\ sort_reverse = [c \in Columns |-> FALSE]
    /\ heading = [col |-> "", arrow |-> ""]
    /\ streak = NoStreak
    /\ last = NoSort

SortUnused ==
    /\ results_tree = <<>>
    /\ sort_reverse = <<>>
    /\ heading = <<>>
    /\ streak = NoStreak
    /\ last = NoSort

\* main.py:528-552  update: the rows are deleted and those of the new results
\* inserted; sort_reverse and the headers are not touched.
Redraw(table) ==
    /\ results_tree' = table
    /\ streak' = NoStreak
    /\ last' = NoSort
    /\ UNCHANGED <<sort_reverse, heading, hvars, zvars, pvars, ovars, svars, cvars>>

\* main.py:431-463  _sort_column(col).  A TypeError of items.sort is caught
\* nowhere: the callback ends there, with the rows, the flag and the headers
\* as they were.
_sort_column(col) ==
    /\ results_tree # <<>>
    /\ streak.n < MaxClicks
    /\ LET vals == [k \in 1..Len(results_tree) |-> results_tree[k].values[col]]
           items == [k \in 1..Len(results_tree) |->
                        [key |-> SortKey(vals, k), item |-> results_tree[k]]]
           reverse == sort_reverse[col]
           out == ListSort(items, reverse)
       IN  /\ last' = [col |-> col, raised |-> out.raised, reverse |-> reverse,
                       before |-> results_tree]
           /\ streak' = IF streak.col \in {"", col}
                        THEN [col |-> col, n |-> streak.n + 1]
                        ELSE [col |-> "several", n |-> streak.n + 1]
           /\ IF out.raised
              THEN UNCHANGED <<results_tree, sort_reverse, heading>>
              ELSE /\ results_tree' = [k \in 1..Len(items) |-> out.items[k].item]
                   /\ sort_reverse' = [sort_reverse EXCEPT ![col] = ~reverse]
                   /\ heading' = [col |-> col, arrow |-> IF reverse THEN "down" ELSE "up"]
    /\ UNCHANGED <<hvars, zvars, pvars, ovars, svars, cvars>>

SortNext ==
    \/ \E table \in Tables : Redraw(table)
    \/ \E col \in Columns : _sort_column(col)

(***************************************************************************)
(* The parsing of a SubDivX search page.  The page is what each of the     *)
(* three selectors of _parse_results finds in it, in document order.       *)
(***************************************************************************)
ParseInit ==
    /\ soup \in Soups
    /\ parsed = <<>>
    /\ cpc = "start"

ParseUnused ==
    /\ soup = [s1 |-> <<>>, s2 |-> <<>>, s3 |-> <<>>]
    /\ parsed = <<>>
    /\ cpc = "unused"

\* subdivx.py:96  results = self._parse_results(soup)
Parse ==
    /\ cpc = "start"
    /\ parsed' = SubDivX_parse_results(soup)
    /\ cpc' = "parsed"
    /\ UNCHANGED <<soup, hvars, zvars, pvars, ovars, svars, tvars>>

ParseNext == Parse

(***************************************************************************)
(* The specifications.                                                     *)
(***************************************************************************)
InitHash == HashInit /\ ZipUnused /\ ProvUnused /\ AppUnused /\ SaveUnused /\ SortUnused /\ ParseUnused

SpecHash == InitHash /\ [][HashNext]_vars

InitZip == HashUnused /\ ZipInit /\ ProvUnused /\ AppUnused /\ SaveUnused /\ SortUnused /\ ParseUnused

SpecZip == InitZip /\ [][ZipNext]_vars

\* The provider classes, each called on its own.
InitProv == HashUnused /\ ZipUnused /\ ProvInit /\ AppUnused /\ SaveUnused /\ SortUnused /\ ParseUnused

SpecProv == InitProv /\ [][ProvNext]_vars

\* _parse_results on every page.
InitParse ==
    HashUnused /\ ZipUnused /\ ProvUnused /\ AppUnused /\ SaveUnused /\ SortUnused /\ ParseInit

SpecParse == InitParse /\ [][ParseNext]_vars

\* One SubDivXProvider instance through its calls and its disposal.
InitBrowser ==
    HashUnused /\ ZipUnused /\ BrowserInit /\ AppUnused /\ SaveUnused /\ SortUnused /\ ParseUnused

SpecBrowser == InitBrowser /\ [][BrowserNext]_vars

\* The persist step of the download workers, on its own.
InitSave == HashUnused /\ ZipUnused /\ ProvUnused /\ AppUnused /\ SaveInit /\ SortUnused /\ ParseUnused

SpecSave == InitSave /\ [][SaveNext]_vars

\* The results table: redraws and activations of the column headers.
InitSort ==
    HashUnused /\ ZipUnused /\ ProvUnused /\ AppUnused /\ SaveUnused /\ SortInit /\ ParseUnused

SpecSort == InitSort /\ [][SortNext]_vars

\* The application: the UI thread and its worker threads.
Init == HashUnused /\ ZipUnused /\ AppInit /\ SaveUnused /\ SortUnused /\ ParseUnused

Spec == Init /\ [][AppNext]_vars

\* Single-video mode from a drawn table of results.
InitTable ==
    HashUnused /\ ZipUnused /\ TableInit /\ SaveUnused /\ SortUnused /\ ParseUnused

SpecTable == InitTable /\ [][TableNext]_vars

\* The batch threads under a fair scheduler: a thread that can take its next
\* step takes it (every blocking call returns: the requests carry timeouts).
SpecBatch == Init /\ [][BatchNext]_vars /\ \A w \in WorkerIds : WF_vars(BatchStep(w))

(***************************************************************************)
(* Claims about get_file_hash, checked under SpecHash.                     *)
(***************************************************************************)
\* C3: get_file_hash returns None for every file below 131072 bytes, for every
\* file that cannot be opened and whenever a read fails; for a readable file of
\* 131072 bytes or more, read without error, it returns a fingerprint.  While
\* the last block is read, the reads stay at or past offset 65536: the two
\* blocks never overlap, and at exactly 131072 bytes the last block starts
\* where the first one ends.
C3_UnavailableBelowThreshold ==
    /\ hpc = "done" =>
         /\ filepath.size < 131072 => hash_result = None
         /\ ~filepath.readable => hash_result = None
         /\ io_failed => hash_result = None
         /\ (filepath.readable /\ filepath.size >= 131072 /\ ~io_failed)
               => hash_result # None
    /\ hpc = "last" =>
         /\ fpos >= 65536
         /\ fpos = (filepath.size - 65536) + 8 * loop_i
         /\ filepath.size = 131072 /\ loop_i = 0 => fpos = 65536

C3_Witness ==
    /\ hpc = "done"
    /\ filepath.size = 131072
    /\ filepath.readable
    /\ hash_result # None

\* The claim's arithmetic, stated apart from the code's: unsigned 64-bit words,
\* least significant byte first, added modulo 2^64.
RefWord(f, o) ==
    <<ByteAt(f, o), ByteAt(f, o + 1), ByteAt(f, o + 2), ByteAt(f, o + 3),
      ByteAt(f, o + 4), ByteAt(f, o + 5), ByteAt(f, o + 6), ByteAt(f, o + 7)>>

RECURSIVE RefAddFrom(_, _, _, _)
RefAddFrom(a, b, k, carry) ==
    IF k > 8 THEN <<>>
    ELSE LET s == a[k] + b[k] + carry
         IN  <<s % 256>> \o RefAddFrom(a, b, k + 1, s \div 256)

RefAdd64(a, b) == RefAddFrom(a, b, 1, 0)

\* The sum of words lo..hi-1 of the block that starts at offset base.
RECURSIVE RefBlockSum(_, _, _, _)
RefBlockSum(f, base, lo, hi) ==
    IF hi - lo = 1 THEN RefWord(f, base + 8 * lo)
    ELSE LET mid == (lo + hi) \div 2
             left == RefBlockSum(f, base, lo, mid)
             right == RefBlockSum(f, base, mid, hi)
         IN  RefAdd64(left, right)

RefSize(n) ==
    [k \in 1..8 |->
        CASE k = 1 -> n % 256
          [] k = 2 -> (n \div 256) % 256
          [] k = 3 -> (n \div 65536) % 256
          [] k = 4 -> (n \div 16777216) % 256
          [] OTHER -> 0]

RefFingerprint(f) ==
    RefAdd64(RefAdd64(RefSize(f.size), RefBlockSum(f, 0, 0, 8192)),
             RefBlockSum(f, f.size - 65536, 0, 8192))

\* Sixteen digits, most significant first.
RefHex(a) ==
    [d \in 1..16 |->
        LET b == a[8 - ((d - 1) \div 2)]
        IN  HexDigits[(IF d % 2 = 1 THEN b \div 16 ELSE b % 16) + 1]]

\* C4: a fingerprint that get_file_hash returns is (size + the sum of the 8-byte
\* little-endian words of the first 65536 bytes + that of the last 65536
\* bytes) modulo 2^64, written as exactly 16 lowercase hex digits; it is a
\* function of the file alone.  After every iteration the accumulator is in
\* [0, 2^64), although each word is unpacked as a signed integer.
C4_FingerprintIsWrappedSum ==
    /\ \A k \in (8 + 1)..IntWidth : hash_val[k] = 0
    /\ (hpc = "done" /\ hash_result # None) =>
         /\ Len(hash_result) = 16
         /\ \A d \in 1..Len(hash_result) :
               hash_result[d] \in {"0", "1", "2", "3", "4", "5", "6", "7",
                                   "8", "9", "a", "b", "c", "d", "e", "f"}
         /\ hash_result = RefHex(RefFingerprint(filepath))

C4_Witness ==
    /\ hpc = "done"
    /\ hash_result # None
    /\ filepath.pat = "ones"
    /\ filepath.size = 131073
    /\ hash_result # RefHex(RefSize(filepath.size))

(***************************************************************************)
(* Claims about _extract_subtitle_content, checked under SpecZip.          *)
(***************************************************************************)
\* The positions of the members of ms whose name ends with ".srt".
ClaimSrtMembers(ms) ==
    {i \in 1..Len(ms) :
        /\ Len(ms[i].name) >= 4
        /\ SubSeq(ms[i].name, Len(ms[i].name) - 3, Len(ms[i].name))
              = <<46, 115, 114, 116>>}

ClaimStartsWithSignature(b) ==
    Len(b) >= 4 /\ SubSeq(b, 1, 4) = <<80, 75, 3, 4>>

\* C10: from the bytes of an undamaged archive with exactly one .srt member,
\* _extract_subtitle_content returns that member's bytes; bytes that do not
\* start with the ZIP signature are returned unchanged, and so is the result
\* when the function is applied to it again.
C10_ExtractRoundTrip ==
    /\ (zpc \in {"once", "twice"} /\ zmade.zip /\ zmade.damage = "none"
          /\ Cardinality(ClaimSrtMembers(zmade.members)) = 1)
         => \A i \in ClaimSrtMembers(zmade.members) : zout = zmade.members[i].data
    /\ (zpc \in {"once", "twice"} /\ ~ClaimStartsWithSignature(zcontent))
         => zout = zcontent
    /\ (zpc = "twice" /\ ~ClaimStartsWithSignature(zcontent))
         => zagain = zout

C10_Witness ==
    /\ zpc = "once"
    /\ zmade.zip
    /\ zmade.damage = "none"
    /\ Len(zmade.members) = 2
    /\ ClaimSrtMembers(zmade.members) = {2}
    /\ zmade.members[1].data # zmade.members[2].data
    /\ zout = zmade.members[2].data
    /\ zout # <<>>

(***************************************************************************)
(* C5: every search entry point returns at most Cap (15) results, however  *)
(* many the remote lists.  OpenSubtitlesAPI.search returns the "data" list *)
(* of the response whole.                                                  *)
(***************************************************************************)
C5_SearchReturnsAtMostCap ==
    (ppc = "searched" /\ pcall.op \in {"search", "search_for_video"})
        => Len(pcall.results) <= Cap

(***************************************************************************)
(* C6: a search whose request ends in a network error or timeout, or is    *)
(* answered with a status other than 200, or with a body that cannot be    *)
(* parsed, returns the empty list and raises nothing.  The scraping        *)
(* providers never read the status, and parse the body of any response.    *)
(***************************************************************************)
C6_SearchErrorsGiveEmpty ==
    (/\ ppc = "searched"
     /\ pcall.sent
     /\ \/ pcall.net.fail = 1
        \/ pcall.net.status # 200
        \/ pcall.net.malformed)
        => (pcall.results = <<>> /\ ~pcall.raised)

(***************************************************************************)
(* C7: a capability that is not there gives no results and no exception:   *)
(* OpenSubtitlesProvider without a key returns from search and download    *)
(* before any request; SubDivXProvider without the browser engine, or with *)
(* a launch that failed, returns [] and None; the two classes over the     *)
(* aggregator library return [] and None when it cannot be imported.       *)
(***************************************************************************)
C7_UnavailableCapabilityDegrades ==
    /\ (pcall.prov = "OpenSubtitlesProvider" /\ ~caps.api_key)
          => /\ pcall.results = <<>> /\ pcall.path = "None"
             /\ ~pcall.sent /\ pcall.fetches = 0
             /\ ~pcall.raised /\ ~pcall.wrote
    /\ (pcall.prov = "SubDivXProvider" /\ (~caps.playwright \/ subdivx.browser = "none"))
          => /\ pcall.results = <<>> /\ pcall.path = "None"
             /\ ~pcall.raised /\ ~pcall.wrote
    /\ (pcall.prov \in VideoSearchClasses /\ ~caps.subliminal)
          => /\ pcall.results = <<>> /\ pcall.path = "None"
             /\ ~pcall.raised /\ ~pcall.wrote

\* OpenSubtitlesProvider.search was called without a key while the remote
\* would have answered with items.
C7_Witness ==
    /\ ppc = "searched"
    /\ pcall.prov = "OpenSubtitlesProvider"
    /\ ~caps.api_key
    /\ pcall.net.fail = 0 /\ pcall.net.status = 200 /\ ~pcall.net.malformed
    /\ pcall.net.n > Cardinality(pcall.net.bad)
    /\ pcall.results = <<>>

(***************************************************************************)
(* C8: a result whose provider field names provider A, handed to the       *)
(* download of another provider B, is not fetched and saved by B: B        *)
(* returns None and writes nothing.  No download reads the provider field. *)
(***************************************************************************)
C8_ProviderIsolation ==
    (/\ ppc = "downloaded"
     /\ pcall.prov \in ProviderClasses
     /\ held.cls = "SubtitleResult"
     /\ held.by # pcall.prov
     /\ Head(held.provider) # Head(NameOf(pcall.prov)))
        => (pcall.path = "None" /\ ~pcall.wrote)

(***************************************************************************)
(* C1: for each video, in _do_search and in the batch loop alike, the      *)
(* searches are made in the order hash, query, aggregator, and a search is *)
(* made only when every search made before it for that video came back     *)
(* empty: after a search with results no further search is made.           *)
(***************************************************************************)
ClaimStageRank(stage) ==
    CASE stage = "hash" -> 1 [] stage = "query" -> 2 [] stage = "aggregator" -> 3

C1_StagesInOrderUntilFirstHit ==
    \A w \in WorkerIds :
        LET s == workers[w].stages
        IN  /\ \A i, j \in 1..Len(s) :
                  i < j => ClaimStageRank(s[i].stage) < ClaimStageRank(s[j].stage)
            /\ \A i \in 1..(Len(s) - 1) : s[i].hits = 0

\* A batch worker found results by hash and went on to the download with no
\* other search made, though the key and the aggregator were both there.
C1_Witness ==
    \E w \in WorkerIds :
        /\ workers[w].kind = "batch"
        /\ workers[w].pc = "dispatch"
        /\ caps.api_key /\ caps.subliminal
        /\ Len(workers[w].stages) = 1
        /\ workers[w].stages[1].stage = "hash"
        /\ workers[w].stages[1].hits > 0

(***************************************************************************)
(* C2: the hash search is made for a video exactly when the video has a    *)
(* fingerprint (readable, at least 2 * 65536 bytes) and the API key is     *)
(* set; without the key neither the hash nor the query search is made;     *)
(* with the key and no fingerprint the first search made is the query      *)
(* search.                                                                 *)
(***************************************************************************)
ClaimHasFingerprint(video) == video.readable /\ video.size >= 2 * 65536

ClaimSearched(w, stage) ==
    \E i \in 1..Len(workers[w].stages) : workers[w].stages[i].stage = stage

ClaimPastQuery == {"stage3", "publish", "dispatch", "link", "fetch", "save"}

C2_HashSearchIffFingerprintAndKey ==
    \A w \in WorkerIds :
        (workers[w].kind \in {"search", "batch"}
           /\ workers[w].pc \in ClaimPastQuery \cup {"stage2"})
        => LET fp == ClaimHasFingerprint(video_files[workers[w].video])
           IN  /\ ClaimSearched(w, "hash") <=> (fp /\ caps.api_key)
               /\ ~caps.api_key
                    => (~ClaimSearched(w, "hash") /\ ~ClaimSearched(w, "query"))
               /\ (caps.api_key /\ ~fp /\ workers[w].pc \in ClaimPastQuery)
                    => (workers[w].stages # <<>>
                          /\ workers[w].stages[1].stage = "query")

\* A worker at its third stage, for a video without a fingerprint and with
\* the key set, whose first search was the query search.
C2_Witness ==
    \E w \in WorkerIds :
        /\ workers[w].kind \in {"search", "batch"}
        /\ workers[w].pc = "stage3"
        /\ caps.api_key
        /\ ~ClaimHasFingerprint(video_files[workers[w].video])
        /\ workers[w].stages # <<>>
        /\ workers[w].stages[1].stage = "query"

(***************************************************************************)
(* C9: in the single and in the batch download a result goes down the      *)
(* aggregator's download path exactly when the aggregator's                *)
(* search_for_video made it, and a result of the structured API goes only  *)
(* to the two-step HTTP download.                                          *)
(***************************************************************************)
C9_DownloadPathMatchesOrigin ==
    \A w \in WorkerIds :
        workers[w].route # "none"
        => /\ workers[w].route = "aggregator"
                <=> workers[w].subtitle.by = "SubliminalFallback"
           /\ workers[w].subtitle.by = "OpenSubtitlesAPI"
                => workers[w].route = "http"

\* A download started from a row of the table took the aggregator's path for
\* a result of the aggregator.
C9_Witness ==
    \E w \in WorkerIds :
        /\ workers[w].kind = "download"
        /\ workers[w].route = "aggregator"
        /\ workers[w].subtitle.by = "SubliminalFallback"

(***************************************************************************)
(* C11: from bytes that begin with the ZIP signature the function returns  *)
(* the first member whose extension is a subtitle extension (.srt .sub     *)
(* .ssa .ass .vtt), a .srt member if there is one; an archive with no such *)
(* member, or one that cannot be opened, is passed through unchanged, so   *)
(* no member of another extension is returned.  The function looks for     *)
(* '.srt' only and otherwise returns the first member, whatever its name.  *)
(***************************************************************************)
\* file_utils.py:15  SUBTITLE_EXTENSIONS, as ASCII.
ClaimSubtitleExtensions ==
    {<<46, 115, 114, 116>>, <<46, 115, 117, 98>>, <<46, 115, 115, 97>>,
     <<46, 97, 115, 115>>, <<46, 118, 116, 116>>}

\* name.lower()
ClaimLower(name) ==
    [k \in 1..Len(name) |->
        IF name[k] >= 65 /\ name[k] <= 90 THEN name[k] + 32 ELSE name[k]]

\* The positions of the members of ms whose extension is a subtitle extension.
ClaimSubtitleMembers(ms) ==
    {i \in 1..Len(ms) :
        \E ext \in ClaimSubtitleExtensions :
            /\ Len(ms[i].name) >= Len(ext)
            /\ SubSeq(ClaimLower(ms[i].name), Len(ms[i].name) - Len(ext) + 1,
                      Len(ms[i].name)) = ext}

C11_OnlySubtitleMembersExtracted ==
    (zpc \in {"once", "twice"} /\ zmade.zip)
        => \/ zout = zcontent
           \/ /\ zmade.damage = "none"
              /\ \E i \in ClaimSubtitleMembers(zmade.members) :
                    /\ zout = zmade.members[i].data
                    /\ \/ i \in ClaimSrtMembers(zmade.members)
                       \/ /\ ClaimSrtMembers(zmade.members) = {}
                          /\ \A j \in ClaimSubtitleMembers(zmade.members) : i <= j

(***************************************************************************)
(* Claims about the persist step, checked under SpecSave.                  *)
(***************************************************************************)
\* The names of the videos of the model without their last extension:
\* S.1.mkv gives S.1, S.mkv gives S.
ClaimStem(name) ==
    IF name = <<83, 46, 49, 46, 109, 107, 118>> THEN <<83, 46, 49>> ELSE <<83>>

\* <video-stem>.<languageCode>.srt
ClaimName(video, code) == ClaimStem(video.name) \o <<46>> \o code \o <<46, 115, 114, 116>>

\* The files of now that were not there before, or not with that data.
ClaimTouched == (sfiles \ sjob.found) \cup (sjob.found \ sfiles)

\* C12: a subtitle persisted by the single download or by the batch loop is
\* written in the directory of the video under the name
\* <video-stem>.<languageCode>.srt, the stem being the video's file name
\* without its last extension (S.1.mkv and es give exactly S.1.es.srt), and
\* no file of another name or directory is written.
C12_PersistedNameIsStemLanguageSrt ==
    (spc \in {"saved", "failed"})
        => /\ sname = ClaimName(sjob.video, LanguageText(sjob.language))
           /\ \A f \in ClaimTouched : f.dir = sjob.video.dir /\ f.name = sname
           /\ (spc = "saved") =>
                 \E f \in sfiles : f.dir = sjob.video.dir /\ f.name = sname
           /\ (sjob.video.name = <<83, 46, 49, 46, 109, 107, 118>>
                 /\ sjob.language = [kind |-> "str", text |-> <<101, 115>>])
                => sname = <<83, 46, 49, 46, 101, 115, 46, 115, 114, 116>>

C12_Witness ==
    /\ spc = "saved"
    /\ sjob.mode = "batch"
    /\ sjob.video = [dir |-> "d2", name |-> <<83, 46, 49, 46, 109, 107, 118>>]
    /\ sjob.language = [kind |-> "str", text |-> <<101, 115>>]
    /\ sjob.found = {[dir |-> "d1", name |-> <<83, 46, 49, 46, 101, 115, 46, 115, 114, 116>>,
                      data |-> <<48>>]}
    /\ sfiles = sjob.found
                  \cup {[dir |-> "d2", name |-> <<83, 46, 49, 46, 101, 115, 46, 115, 114, 116>>,
                         data |-> <<49, 10>>]}

\* C13: the language code in the name of every persisted file is es or en,
\* whatever result of the structured API or of the aggregator is saved, a
\* result without a language attribute or with another value included.  The
\* workers put the attribute into the name as it came.
C13_LanguageCodeIsEsOrEn ==
    (spc = "saved")
        => \E code \in {<<101, 115>>, <<101, 110>>} :
              /\ sname = ClaimName(sjob.video, code)
              /\ \E f \in sfiles : f.dir = sjob.video.dir /\ f.name = sname

\* C14: when the target <video-stem>.<languageCode>.srt is already there, the
\* persist step replaces its content with the new bytes: no file is added
\* (none numbered or otherwise told apart), and no other file of the
\* directory is created, renamed or changed.
C14_ExistingTargetIsOverwritten ==
    (/\ spc = "saved"
     /\ \E f \in sjob.found : f.dir = sjob.video.dir /\ f.name = sname)
        => /\ Cardinality(sfiles) = Cardinality(sjob.found)
           /\ {[dir |-> f.dir, name |-> f.name] : f \in sfiles}
                 = {[dir |-> f.dir, name |-> f.name] : f \in sjob.found}
           /\ \A f \in sfiles :
                 IF f.dir = sjob.video.dir /\ f.name = sname
                 THEN f.data = ExtractSubtitleContent(sjob.content.bytes)
                 ELSE f \in sjob.found

C14_Witness ==
    /\ spc = "saved"
    /\ sjob.mode = "single"
    /\ sjob.video.dir = "d1"
    /\ sjob.found = FoundFiles
    /\ sname = <<83, 46, 49, 46, 101, 115, 46, 115, 114, 116>>
    /\ [dir |-> "d1", name |-> sname, data |-> <<49, 10>>] \in sfiles
    /\ [dir |-> "d1", name |-> sname, data |-> <<48>>] \notin sfiles
    /\ Cardinality(sfiles) = 3

(***************************************************************************)
(* Claims about the batch loop of _do_download_all, checked under          *)
(* SpecBatch.                                                              *)
(***************************************************************************)
ClaimBatch(w) == workers[w].kind = "batch"

ClaimWritten(w) == {k \in 1..Len(workers[w].done) : workers[w].done[k].outcome = "written"}

ClaimRaised(w) == {k \in 1..Len(workers[w].done) : workers[w].done[k].outcome = "raised"}

\* What holds of a batch thread at every moment: a video whose processing
\* raised did not end the loop, and the counter is the number of videos
\* whose file was written.
ClaimBatchCounts(w) ==
    ClaimBatch(w) =>
        /\ workers[w].downloaded = Cardinality(ClaimWritten(w))
        /\ \A k \in ClaimWritten(w) : HasSubtitle(workers[w].done[k].video)
        /\ \A k \in ClaimRaised(w) :
              \/ k < Len(workers[w].videos) /\ workers[w].i > k
              \/ k = Len(workers[w].videos) /\ workers[w].pc = "report"

\* C15: when the processing of one video of a batch raises, the exception is
\* caught, every later video is still attempted, the batch still reports its
\* completion, and the count it reports is the number of videos whose
\* subtitle file was written, the failing video not among them.
C15_BatchSurvivesFailingVideo ==
    /\ [](\A w \in WorkerIds : ClaimBatchCounts(w))
    /\ \A w \in WorkerIds :
          (ClaimBatch(w) /\ ClaimRaised(w) # {})
             ~> (/\ ClaimBatch(w)
                 /\ workers[w].pc = "report"
                 /\ Len(workers[w].done) = Len(workers[w].videos)
                 /\ workers[w].downloaded = Cardinality(ClaimWritten(w)))

C15_Witness ==
    \E w \in WorkerIds :
        /\ ClaimBatch(w)
        /\ workers[w].pc = "report"
        /\ Len(workers[w].videos) = 2
        /\ ClaimRaised(w) = {1}
        /\ ClaimWritten(w) = {2}
        /\ workers[w].downloaded = 1

\* What holds of a batch thread at every moment: it is at the video of its
\* place in the list, the videos before it are gone through in list order,
\* each once, and at the report all of them are.
ClaimBatchOrder(w) ==
    LET me == workers[w]
    IN  ClaimBatch(w) =>
          /\ me.i \in 1..Len(me.videos)
          /\ me.video = me.videos[me.i]
          /\ \A a, b \in 1..Len(me.videos) : a # b => me.videos[a] # me.videos[b]
          /\ Len(me.done) = IF me.pc = "report" THEN Len(me.videos) ELSE me.i - 1
          /\ \A k \in 1..Len(me.done) : me.done[k].video = me.videos[k]

\* A batch thread moves to another video only forward by one, from a step that
\* ends the processing of its video (no result, no content, the write, or
\* a raise), and starts that video at its beginning.
ClaimBatchAdvance(w) ==
    (ClaimBatch(w) /\ workers'[w].kind = "batch" /\ workers'[w].i # workers[w].i)
        => /\ workers'[w].i = workers[w].i + 1
           /\ workers[w].pc \in {"stage3", "fetch", "save"}
           /\ workers'[w].pc = "hash"
           /\ workers'[w].videos = workers[w].videos
           /\ Len(workers'[w].done) = Len(workers[w].done) + 1

\* C16: a batch worker goes through the videos of its list strictly in
\* sequence: each video once, in list order, the search for the next video
\* starting only after the current video is finished or has failed, one
\* provider search at a time; after the last video it reaches the completion
\* report.
C16_BatchVideosInSequence ==
    /\ [](\A w \in WorkerIds : ClaimBatchOrder(w))
    /\ [][\A w \in WorkerIds : ClaimBatchAdvance(w)]_vars
    /\ \A w \in WorkerIds :
          ClaimBatch(w) ~> (ClaimBatch(w) /\ workers[w].pc = "report")

C16_Witness ==
    \E w \in WorkerIds :
        /\ ClaimBatch(w)
        /\ workers[w].pc = "stage2"
        /\ workers[w].i = 2
        /\ workers[w].videos = <<1, 2>>
        /\ workers[w].done = <<[video |-> 1, outcome |-> "written"]>>

(***************************************************************************)
(* C17: at any time at most one background worker (a search, a single      *)
(* download or a batch) is active: whatever the user does (search button,  *)
(* double click on a result, download-all, drop), no worker is started     *)
(* while another is still running.  Checked under Spec.  The handlers      *)
(* start their thread without looking for a running one.                   *)
(***************************************************************************)
C17_AtMostOneWorker ==
    Cardinality({w \in WorkerIds : workers[w].kind # "none"}) <= 1

(***************************************************************************)
(* Claims about _sort_column, checked under SpecSort.                      *)
(***************************************************************************)
\* The cells of column col, top to bottom.
ClaimCells(col) == [k \in 1..Len(results_tree) |-> results_tree[k].values[col]]

ClaimAllDigits(cells) ==
    \A k \in 1..Len(cells) :
        cells[k] # <<>> /\ \A i \in 1..Len(cells[k]) : cells[k][i] \in 48..57

\* C18: starting from freshly drawn results, the first activation of a column
\* sorts the rows ascending on it, a second activation of the same column
\* right after sorts them descending, and further activations in a row keep
\* alternating.  Stated for columns of whole numbers, where ascending has one
\* meaning.  The flag of a column outlives the redraw of the rows.
C18_FirstAscendingThenAlternating ==
    (/\ streak.col \in Columns
     /\ streak.n >= 1
     /\ ClaimAllDigits(ClaimCells(streak.col)))
        => \A a, b \in 1..Len(results_tree) :
              a < b =>
                 IF streak.n % 2 = 1
                 THEN IntOf(ClaimCells(streak.col)[a]) <= IntOf(ClaimCells(streak.col)[b])
                 ELSE IntOf(ClaimCells(streak.col)[a]) >= IntOf(ClaimCells(streak.col)[b])

\* A cell that looks like a number: digits, with at most one decimal point.
ClaimNumeric(cell) ==
    /\ \E i \in 1..Len(cell) : cell[i] \in 48..57
    /\ \A i \in 1..Len(cell) : cell[i] \in 48..57 \/ cell[i] = 46
    /\ Cardinality({i \in 1..Len(cell) : cell[i] = 46}) <= 1

\* One digit after the point at most: the value times ten.
ClaimValue(cell) ==
    LET dots == {i \in 1..Len(cell) : cell[i] = 46}
        digits == SelectSeq(cell, LAMBDA c : c # 46)
    IN  IF dots = {} \/ cell[Len(cell)] = 46 THEN IntOf(digits) * 10 ELSE IntOf(digits)

ClaimFold(cell) ==
    [i \in 1..Len(cell) |-> IF cell[i] \in 65..90 THEN cell[i] + 32 ELSE cell[i]]

\* cell a may stand above cell b in an ascending table.
ClaimInOrder(a, b) ==
    IF ClaimNumeric(a) /\ ClaimNumeric(b) THEN ClaimValue(a) <= ClaimValue(b)
    ELSE IF ~ClaimNumeric(a) /\ ~ClaimNumeric(b)
    THEN ClaimFold(a) = ClaimFold(b) \/ StrLess(ClaimFold(a), ClaimFold(b))
    ELSE TRUE

ClaimSameKey(a, b) ==
    IF ClaimNumeric(a) /\ ClaimNumeric(b) THEN ClaimValue(a) = ClaimValue(b)
    ELSE ~ClaimNumeric(a) /\ ~ClaimNumeric(b) /\ ClaimFold(a) = ClaimFold(b)

\* The place of the row of item it in the table rows.
ClaimPlace(rows, it) == CHOOSE k \in 1..Len(rows) : rows[k].item = it

\* C19: whatever a column holds, _sort_column completes and leaves the rows
\* ordered with numeric-looking values compared as numbers and all other
\* values compared as text without regard to case, a column that mixes the
\* two kinds (FPS '-' and '25') included; rows with equal keys keep their
\* previous relative order.
C19_SortCompletesNumericOrCaseless ==
    (last.col \in Columns)
        => /\ ~last.raised
           /\ \A a, b \in 1..Len(results_tree) :
                 a < b =>
                    LET x == results_tree[a].values[last.col]
                        y == results_tree[b].values[last.col]
                    IN  /\ IF last.reverse THEN ClaimInOrder(y, x) ELSE ClaimInOrder(x, y)
                        /\ ClaimSameKey(x, y) =>
                              ClaimPlace(last.before, results_tree[a].item)
                                 < ClaimPlace(last.before, results_tree[b].item)

(***************************************************************************)
(* C20: the browser of a SubDivXProvider instance is started lazily and    *)
(* reused: none is launched at construction, the first search or download  *)
(* launches one and the later calls reuse it, so that after any sequence   *)
(* of calls at most one browser and one engine handle have been started    *)
(* and are live, and after disposal none is.  Checked under SpecBrowser.   *)
(* _init_browser starts a new engine whenever self.browser is None, also   *)
(* when an earlier launch failed and left one started, and _close_browser  *)
(* skips the stop of the engine when closing the browser raises.           *)
(***************************************************************************)
C20_OneLazyBrowserPerInstance ==
    /\ (ppc = "constructed" /\ subdivx.calls = 0)
          => (subdivx.browsers = 0 /\ subdivx.engines = 0)
    /\ ppc = "constructed" => (subdivx.browsers <= 1 /\ subdivx.engines <= 1)
    /\ ppc = "disposed" => (subdivx.browsers = 0 /\ subdivx.engines = 0)

(***************************************************************************)
(* C21: every browser context that a call of search or download of the     *)
(* SubDivXProvider opens is closed by the time the call returns, on every  *)
(* path, also when the navigation times out, the parsing raises or the     *)
(* later HTTP download fails.  Checked under SpecBrowser, where a state    *)
(* is the instance between two calls.  context.close() is a plain          *)
(* statement of the try body (lines 98, 211, 216), with no finally and no  *)
(* with: page.goto raising skips it and the except only prints.            *)
(***************************************************************************)
C21_ContextsClosedOnReturn == subdivx.contexts = 0

(***************************************************************************)
(* C22: the download through the structured API is two-phase and fails     *)
(* closed: the bytes are fetched only after the link request returned a    *)
(* link, and when either phase fails (link request not 200, no link, an    *)
(* exception, or bytes fetch not 200) the download is reported as failed   *)
(* and no subtitle file is written.  Stated here for                       *)
(* OpenSubtitlesProvider.download, under SpecProv: pcall is the call just  *)
(* made and pcall.dnet what the API did during it.                         *)
(***************************************************************************)
ClaimLinkGiven(d) == d.fail # 1 /\ d.status = 200 /\ ~d.malformed /\ d.haslink

ClaimBytesGiven(d) == d.fail = 0 /\ d.fstatus = 200

C22_TwoPhaseDownloadFailsClosed ==
    (ppc = "downloaded" /\ pcall.prov = "OpenSubtitlesProvider")
        => /\ pcall.fetches = 2 => ClaimLinkGiven(pcall.dnet)
           /\ ~(ClaimLinkGiven(pcall.dnet) /\ ClaimBytesGiven(pcall.dnet))
                 => (pcall.path = "None" /\ ~pcall.wrote)

(***************************************************************************)
(* C23: the parsing of the browser provider is a cascade: selector 2 is    *)
(* applied only if selector 1 yields no result, selector 3 only if 1 and 2 *)
(* both yield none, so that the list returned comes from exactly one       *)
(* selector, the first that yields any result, whole and in page order,    *)
(* and is empty only if all three yield nothing.  Checked under SpecParse  *)
(* over every page of up to MaxElems elements per selector.                *)
(***************************************************************************)
\* What selector sel alone yields on the page: the places of its elements
\* that give a result.
ClaimYield(page, sel) ==
    CASE sel = 1 -> {k \in 1..Len(page.s1) : page.s1[k] = "ok"}
      [] sel = 2 -> {k \in 1..Len(page.s2) : page.s2[k] = "ok"}
      [] sel = 3 -> {k \in 1..Len(page.s3) : page.s3[k] = "titled"}

\* The first selector that yields anything, 0 when none does.
ClaimFirst(page) ==
    IF \E sel \in 1..3 : ClaimYield(page, sel) # {}
    THEN CHOOSE sel \in 1..3 :
            /\ ClaimYield(page, sel) # {}
            /\ \A t \in 1..(sel - 1) : ClaimYield(page, t) = {}
    ELSE 0

C23_ParseIsCascade ==
    cpc = "parsed" =>
        LET first == ClaimFirst(soup)
        IN  /\ (parsed = <<>>) <=> (first = 0)
            /\ \A j \in 1..Len(parsed) : parsed[j].sel = first
            /\ first # 0 =>
                  /\ {parsed[j].k : j \in 1..Len(parsed)} = ClaimYield(soup, first)
                  /\ \A i, j \in 1..Len(parsed) : i < j => parsed[i].k < parsed[j].k

\* A page where selector 1 finds only elements that give nothing and
\* selectors 2 and 3 both find something: the list is selector 2's.
C23_Witness ==
    /\ cpc = "parsed"
    /\ soup.s1 # <<>> /\ ClaimYield(soup, 1) = {}
    /\ ClaimYield(soup, 2) # {} /\ ClaimYield(soup, 3) # {}
    /\ parsed # <<>> /\ \A j \in 1..Len(parsed) : parsed[j].sel = 2

(***************************************************************************)
(* C24: parse drift is contained per item: when an item of a provider's    *)
(* search response is malformed, that item alone is skipped, and the       *)
(* search returns exactly the results of the well-formed items, in their   *)
(* order and up to the cap, instead of returning empty or raising.         *)
(* Checked under SpecProv for the searches that read one list of items:    *)
(* pcall.net.n items of which those at pcall.net.bad are malformed.  The   *)
(* loop of ArgenteamProvider._search_api has no try of its own, nor has    *)
(* the loop of SubliminalFallback.search_for_video.                        *)
(***************************************************************************)
RECURSIVE ClaimWellFormed(_, _)
ClaimWellFormed(net, k) ==
    IF k > net.n THEN <<>>
    ELSE (IF k \in net.bad THEN <<>> ELSE <<k>>) \o ClaimWellFormed(net, k + 1)

\* The searches that read the one list: SubsceneProvider with at most one
\* title page, ArgenteamProvider when its search page shows nothing.
ClaimOneList(call) ==
    \/ call.prov \in {"OpenSubtitlesProvider", "SubDivXProvider", "SubliminalFallback"}
    \/ call.prov = "SubsceneProvider" /\ call.net.links <= 1
    \/ call.prov = "ArgenteamProvider" /\ call.net.links = 0

C24_MalformedItemAloneSkipped ==
    (/\ ppc = "searched"
     /\ pcall.sent
     /\ ClaimOneList(pcall)
     /\ pcall.net.fail = 0 /\ pcall.net.status = 200 /\ ~pcall.net.malformed
     /\ pcall.net.bad \cap (1..pcall.net.n) # {})
        => /\ ~pcall.raised
           /\ [j \in 1..Len(pcall.results) |-> pcall.results[j].idx]
                 = Cap15(ClaimWellFormed(pcall.net, 1))

(***************************************************************************)
(* C25: in single-video mode every subtitle persisted is written beside,   *)
(* and named after, the video whose search produced the result downloaded, *)
(* under any interleaving of selection, search and download: selecting     *)
(* another video after a search, or while the download worker runs, never  *)
(* makes the subtitle go under another video's stem.  Checked under Spec   *)
(* as a property of every step in which a _do_download worker changes the  *)
(* files.  _do_download reads self.current_video_path when it saves (line  *)
(* 622), and _on_video_select assigns it on every selection.               *)
(***************************************************************************)
C25_SavedBesideSearchedVideo ==
    [][\A w \in WorkerIds :
          (/\ workers[w].kind = "download"
           /\ workers[w].pc = "save"
           /\ workers'[w] = IdleWorker
           /\ disk' # disk)
             => \A f \in disk' \ disk : f.video = workers[w].subtitle.video]_vars

(***************************************************************************)
(* C26: whenever a download is started from a selected row of the results  *)
(* table, the result downloaded is the one that row displays: the index in *)
(* the row's tag refers to the same entry of current_results, also when a  *)
(* newer search worker replaces current_results before the table has been  *)
(* redrawn.  Checked under SpecTable, which starts with the table showing  *)
(* the results of a first search, as a property of every step that starts  *)
(* a _do_download worker.  _do_search assigns self.current_results in the  *)
(* worker thread (line 517) and only queues the redraw (line 552).         *)
(***************************************************************************)
C26_DownloadedIsDisplayed ==
    [][\A w \in WorkerIds :
          (workers[w].kind = "none" /\ workers'[w].kind = "download")
             => \E row \in 1..Len(tree) :
                   /\ tree[row].tag < Len(current_results)
                   /\ current_results[tree[row].tag + 1] = tree[row].shows
                   /\ workers'[w].subtitle = tree[row].shows]_vars

(***************************************************************************)
(* C27: for every scraping provider and for OpenSubtitlesProvider, the     *)
(* path that download writes and returns lies inside the destination       *)
(* directory the caller passed, whatever file name the server supplies in  *)
(* Content-Disposition or in file_name (names with path separators, ".."   *)
(* components, absolute paths); with no name supplied the provider's       *)
(* default name inside the destination is used.  Checked under SpecProv.   *)
(* The name matched in the header goes into os.path.join as it came.       *)
(***************************************************************************)
ClaimInside(file, dir) ==
    LET at == Resolved(file)
        in == Resolved(dir)
    IN  Len(at) > Len(in) /\ SubSeq(at, 1, Len(in)) = in

ClaimDefaultName(prov) ==
    IF prov \in {"SubsceneProvider", "SubdlProvider", "YifyProvider", "SubDivXProvider"}
    THEN SubtitleZip ELSE SubtitleSrt

C27_WrittenInsideDestination ==
    (/\ ppc = "downloaded"
     /\ pcall.prov \in ProviderClasses \ {"SubliminalProvider"}
     /\ pcall.path = "path")
        => /\ pcall.wrote
           /\ ClaimInside(pcall.file, Destination)
           /\ pcall.dnet.name = <<>>
                 => pcall.file = Destination \o <<Slash>> \o ClaimDefaultName(pcall.prov)

(***************************************************************************)
(* C28: when a download yields no content (the link request failed, the    *)
(* bytes fetch failed or returned nothing, the aggregator returned         *)
(* nothing, or the result holds no file id), no file is created or         *)
(* modified: in single-video mode the worker ends there with the failure   *)
(* reported, in batch mode the count is not incremented for that video.    *)
(* Checked under Spec as a property of every step a worker takes from its  *)
(* download part other than the save of some content.                      *)
(***************************************************************************)
ClaimNoContent(me) == ~me.content.some \/ me.content.bytes = <<>>

ClaimDownloadPart(me) == me.pc \in {"dispatch", "link", "fetch", "save"}

C28_NoContentNoFile ==
    [][\A w \in WorkerIds :
          LET me == workers[w]
              after == workers'[w]
          IN  (/\ ClaimDownloadPart(me)
               /\ after # me
               /\ ~(me.pc = "save" /\ ~ClaimNoContent(me)))
                 => /\ disk' = disk
                    /\ me.kind = "batch" => after.downloaded = me.downloaded
                    /\ (me.pc = "save" /\ me.kind = "download") => after = IdleWorker
                    /\ (me.pc = "save" /\ me.kind = "batch")
                          => /\ after.pc \in {"hash", "report"}
                             /\ after.done
                                   = Append(me.done, [video |-> me.video,
                                                      outcome |-> "nothing"])]_vars

\* A _do_download worker was given a link, its fetch came back without
\* content (an error, a status other than 200, or an empty body), and it is
\* at "if not content" with no file written so far.
C28_Witness ==
    \E w \in WorkerIds :
        /\ workers[w].kind = "download" /\ workers[w].pc = "save"
        /\ workers[w].subtitle.kind = "id" /\ workers[w].link
        /\ ClaimNoContent(workers[w])
        /\ disk = {}

\* The batch loop has written the subtitle of its video.
ClaimPersistedByBatch == spc = "saved" /\ sjob.mode = "batch"

\* C29: batch idempotence.  Once the batch loop has persisted a subtitle for a
\* video, _has_subtitle reports true for that video, so that the list
\* comprehension of a following batch run (download-all, or a drop in auto
\* mode) leaves the video out and its subtitle is not written again.
C29_PersistedIsRecognised ==
    ClaimPersistedByBatch => _has_subtitle(sjob.video, sfiles)

\* The steps of the batch loop body from the choice of the result to the write.
ClaimDownloadPcs == {"dispatch", "link", "fetch", "save"}

ClaimRank(pc) ==
    CASE pc = "dispatch" -> 1 [] pc = "link" -> 2 [] pc = "fetch" -> 3 [] OTHER -> 4

\* The list the worker holds is the one of the last stage it invoked, every
\* stage before it returned an empty list, and the result chosen is the
\* first of that list.
ClaimFirstOfFirstNonEmpty(w) ==
    /\ w.stages # <<>>
    /\ \A k \in 1..(Len(w.stages) - 1) : w.stages[k].hits = 0
    /\ w.stages[Len(w.stages)].hits > 0
    /\ Len(w.results) = w.stages[Len(w.stages)].hits
    /\ w.subtitle = w.results[1]
    /\ w.subtitle.video = w.video

\* C30: in batch mode at most one download is attempted for each video, and
\* only for the first result of the first stage that returned a non-empty
\* list.  The loop body goes once through dispatch, link, fetch and save with
\* that one result and never back to a search stage or to another result;
\* when the download fails it goes on to the next video (or to the report)
\* with nothing written and the count unchanged.
C30_OneAttemptPerVideo ==
    [][\A w \in WorkerIds :
          LET me == workers[w]
              after == workers'[w]
          IN  (me.kind = "batch" /\ after # me)
                 => /\ (after.pc = "dispatch")
                         => me.pc = "stage3" /\ ClaimFirstOfFirstNonEmpty(after)
                    /\ (me.pc \in ClaimDownloadPcs)
                         => IF after.pc \in ClaimDownloadPcs
                            THEN /\ ClaimRank(after.pc) > ClaimRank(me.pc)
                                 /\ after.i = me.i
                                 /\ after.subtitle = me.subtitle
                                 /\ after.results = me.results
                                 /\ after.stages = me.stages
                            ELSE /\ after.pc \in {"hash", "report"}
                                 /\ after.pc = "hash" => after.i = me.i + 1
                                 /\ Len(after.done) = Len(me.done) + 1
                                 /\ LET outcome == after.done[Len(after.done)].outcome
                                    IN  IF outcome = "written"
                                        THEN /\ me.pc = "save" /\ ~ClaimNoContent(me)
                                             /\ after.downloaded = me.downloaded + 1
                                        ELSE /\ after.downloaded = me.downloaded
                                             /\ disk' = disk]_vars

\* A batch worker holds two results of the hash stage, its download of the
\* first has come back without content, and the aggregator stage, which was
\* not tried, is available.
C30_Witness ==
    \E w \in WorkerIds :
        /\ workers[w].kind = "batch" /\ workers[w].pc = "save"
        /\ ClaimNoContent(workers[w])
        /\ caps.subliminal
        /\ workers[w].stages = <<[stage |-> "hash", hits |-> 2]>>
        /\ workers[w].subtitle = workers[w].results[1]
        /\ workers[w].downloaded = 0

====
